---- MODULE Spec2Model ----
(***************************************************************************)
(* Wild Adventure: the GameScene state machine (combat, damage, pickups,   *)
(* win / lose, restart), driven frame by frame by the host engine.         *)
(*                                                                         *)
(* One engine frame is: the frame timestamp advances (BeginFrame), every   *)
(* delayed call and tween that is due runs its callback, the physics step  *)
(* reports overlaps to the registered overlap callbacks, and then          *)
(* update(time) runs (Update), which ends the frame.  Input events arrive  *)
(* between frames.  Positions are the engine's business: which bodies      *)
(* overlap in a physics step, and where the damage source is relative to   *)
(* the player, are inputs of the overlap actions.                          *)
(***************************************************************************)
EXTENDS Integers, FiniteSets, Sequences, TLC

\* ------------------------------------------------------------------ constants
ATTACK_DUR == 200
ATTACK_CD == 1000
MAX_HP == 96
HEART_HP == 24
ENEMY_DMG == 24
NUM_ENEMIES == 5
IFRAMES_DUR == 800
PROJ_LIFETIME == 4000
PLAYER_SPEED == 160
KNOCKBACK_FORCE == 300
DEATH_TWEEN_DUR == 300
TINT_DUR == 150
DEFAULT_SHOOT_CD == 2500
NUM_CHESTS == 3
TRIFORCE_BONUS_HP == 192
TILE_SIZE == 32
MAP_COLS == 50
MAP_ROWS == 50
CHASE_RANGE == 128
\* rnd < 0.80 and rnd < 0.92 of generateMap, in percent
GRASS_BELOW == 80
TREE_BELOW == 92
\* half-widths of the spawn area of generateMap and of the chest exclusion zone
SPAWN_CLEAR == 3
\* attempts < 500 of the enemy spawn loops
SPAWN_ATTEMPTS == 500
\* Distance.Between(ex, ey, px, py) < 200 of the enemy spawn loops
SPAWN_MIN_DIST == 200
\* Between(3, MAP_COLS - 4) of _createEnemies: tiles kept from the map edge
SPAWN_MARGIN == 3
\* attempts < 1000 of generateChestPositions
MAX_ATTEMPTS == 1000
\* minSep = 6 * TILE_SIZE of generateChestPositions
MIN_SEP_TILES == 6
\* half-width of the spawn exclusion zone of generateChestPositions
CHEST_CLEAR == 4
\* patrolTimer -= 16 of updateEnemy
PATROL_TICK == 16
\* pdist > 4 of updateEnemy
PATROL_ARRIVE == 4

\* typeCycle of _createEnemies: the type of the k-th enemy spawned (1-based here)
typeCycle == <<"goblin", "wizrobe", "lynel", "goblin", "wizrobe">>

\* ENEMY_CONFIGS: hit points, shoots flag and shot cooldown per type
ENEMY_CONFIGS ==
    [goblin  |-> [hp |-> 1, shoots |-> FALSE, shootCd |-> 0],
     wizrobe |-> [hp |-> 1, shoots |-> TRUE,  shootCd |-> 2500],
     lynel   |-> [hp |-> 3, shoots |-> FALSE, shootCd |-> 0]]

\* --------------------------------------------------------------------- bounds
\* frames the engine runs in one behaviour
MaxFramesMelee == 7
MaxFramesReward == 4
MaxFramesHarm == 6
\* calls of updateEnemy on one enemy in one behaviour
MaxFramesAI == 3
\* largest cols and rows requested of generateMap
MaxDim == 8
\* restarts in one behaviour
MaxRestarts == 1
\* projectiles (live, or destroyed with their lifetime timer still pending)
MaxProj == 2

\* frame lengths (ms) the engine may produce; the game clock is in ms
Deltas == {100, 1000}
\* game clock (ms since page load) when the first frame of the scene begins
FirstFrameTime == 1000
\* initial lastShotTime values drawn by Between(0, shootCd)
ShotStagger == {0, 2500}
\* movement key states read in a frame, as (vx, vy) before normalisation
KeyDirs == {<<0, 0>>, <<-1, 1>>}
\* touch joystick directions produced by pointermove
TouchDirs == {<<0, 0>>, <<0, 1>>}
\* player position minus damage source position, as a direction
Offsets == {<<0, 0>>, <<0, -1>>}

NoTimer == 0 - 1
Enemies == 1..NUM_ENEMIES
Projs == 1..MaxProj
Chests == 1..NUM_CHESTS

VARIABLES
    time,            \* timestamp of the current frame (scene clock, this.time.now)
    inFrame,         \* TRUE between BeginFrame and the end of update()
    frames,          \* frames begun so far
    restarts,        \* scene.restart() calls so far
    playerHP, facing, isAttacking, lastAttackTime, lastHitTime,
    enemiesKilled, gameOver, victory,
    touchDir, touchAttack,
    playerVel,       \* player body velocity: [dir, speed], velocity = speed * dir / |dir|
    enemies,         \* enemy sprites of the session, by spawn order
    hearts,          \* heart pickups of enemy k lying in the world
    sword,           \* the sword hitbox of the current attack
    attackTimer,     \* deadline of the delayedCall(ATTACK_DUR) of the current attack
    projs,           \* enemy projectiles with their lifetime timers
    chestOpened, triforcePieces, maxHP,
    ev,              \* the callback that ran last (history)
    ai,              \* one enemy as updateEnemy(enemy, player, time) sees it
    gen,             \* one call of generateMap(cols, rows): arguments, position, locals
    chest,           \* one call of generateChestPositions: arguments, position, locals
    spawn,           \* one run of an enemy spawn loop: arguments, position, locals
    call             \* one call of a pure helper: function, arguments, result

vars == <<time, inFrame, frames, restarts, playerHP, facing, isAttacking,
          lastAttackTime, lastHitTime, enemiesKilled, gameOver, victory,
          touchDir, touchAttack, playerVel,
          enemies, hearts, sword, attackTimer, projs,
          chestOpened, triforcePieces, maxHP, ev, ai, gen, chest, spawn, call>>

\* the state of the function-level specifications
Pure == <<ai, gen, chest, spawn, call>>

\* ------------------------------------------------------------------- helpers
Min(a, b) == IF a < b THEN a ELSE b
Max(a, b) == IF a > b THEN a ELSE b
Abs(a) == IF a < 0 THEN 0 - a ELSE a
ZeroVel == [dir |-> <<0, 0>>, speed |-> 0]
\* history: the callback that ran last; dying: the enemy it was called with was
\* dying; shielded: it ran inside the invincibility window
Ev(op, dying, shielded) == [op |-> op, dying |-> dying, shielded |-> shielded]
Quiet(op) == Ev(op, FALSE, FALSE)

typeOf(k) == typeCycle[k]

\* calcKnockbackVelocity(source, player, force): angle = atan2(dy, dx) of the
\* vector off from the source to the player (atan2(0, 0) = 0), scaled by force
calcKnockbackVelocity(off, force) ==
    [dir |-> IF off = <<0, 0>> THEN <<1, 0>> ELSE off, speed |-> force]

\* a sprite that was never spawned in this session
NoEnemy == [spawned |-> FALSE, active |-> FALSE, isDying |-> FALSE, hp |-> 0,
            lastShotTime |-> 0, dieAt |-> NoTimer, acts |-> 0, drops |-> 0,
            tinted |-> FALSE, tintAt |-> NoTimer]

\* the k-th enemy as _createEnemies sets it up; shot is the staggered lastShotTime
newEnemy(k, shot) ==
    [spawned |-> TRUE, active |-> TRUE, isDying |-> FALSE,
     hp |-> ENEMY_CONFIGS[typeOf(k)].hp,
     lastShotTime |-> IF ENEMY_CONFIGS[typeOf(k)].shoots THEN shot ELSE 0,
     dieAt |-> NoTimer, acts |-> 0, drops |-> 0,
     tinted |-> FALSE, tintAt |-> NoTimer]

\* a projectile slot: st is "live" while the sprite is active, "dead" once it
\* is destroyed with its lifetime timer still pending, "free" otherwise;
\* destroys counts the destroy() calls on the slot's last projectile
FreeProj == [st |-> "free", expireAt |-> NoTimer, spawnedAt |-> NoTimer, destroys |-> 0]

\* ---------------------------------------------------------------- init/create
\* the GameScene object as its constructor leaves it (fields not yet assigned)
constructed ==
    [playerHP |-> 0, facing |-> "undefined", isAttacking |-> FALSE,
     lastAttackTime |-> 0, lastHitTime |-> 0, enemiesKilled |-> 0,
     gameOver |-> FALSE, victory |-> FALSE,
     touchDir |-> <<0, 0>>, touchAttack |-> FALSE, playerVel |-> ZeroVel,
     enemies |-> [k \in Enemies |-> NoEnemy],
     hearts |-> [k \in Enemies |-> 0],
     sword |-> [active |-> FALSE, hits |-> 0, destroys |-> 0], attackTimer |-> NoTimer,
     projs |-> [p \in Projs |-> FreeProj],
     chestOpened |-> {}, triforcePieces |-> 0, maxHP |-> 0, restarts |-> 0]

\* variant of init() that keeps the hit points of the previous session
init_keepsHP(s) ==
    [s EXCEPT !.facing = "down", !.isAttacking = FALSE,
              !.lastAttackTime = 0, !.lastHitTime = 0, !.enemiesKilled = 0,
              !.gameOver = FALSE, !.victory = FALSE]

\* init(): the fields reset on every (re)start
init(s) ==
    [s EXCEPT !.playerHP = MAX_HP, !.facing = "down", !.isAttacking = FALSE,
              !.lastAttackTime = 0, !.lastHitTime = 0, !.enemiesKilled = 0,
              !.gameOver = FALSE, !.victory = FALSE]

\* _createEnemies(): n enemies placed by the bounded spawn search, in typeCycle
\* order; shots[k] is the staggered lastShotTime drawn for the k-th enemy
createEnemies(n, shots) ==
    [k \in Enemies |-> IF k <= n THEN newEnemy(k, shots[k]) ELSE NoEnemy]

\* the chests and the reward state of a new session
createChests(s) ==
    [s EXCEPT !.chestOpened = {}, !.triforcePieces = 0, !.maxHP = MAX_HP]

\* create(): a new world (player, enemies, groups, timers, touch state); the
\* objects, timers and tweens of the previous session are gone
create(s, n, shots) ==
    createChests(
        [s EXCEPT !.touchDir = <<0, 0>>, !.touchAttack = FALSE,
                  !.playerVel = ZeroVel,
                  !.enemies = createEnemies(n, shots),
                  !.hearts = [k \in Enemies |-> 0],
                  !.sword = [active |-> FALSE, hits |-> 0, destroys |-> 0],
                  !.attackTimer = NoTimer,
                  !.projs = [p \in Projs |-> FreeProj]])

\* the scene as one record, and its write-back
Scene ==
    [playerHP |-> playerHP, facing |-> facing, isAttacking |-> isAttacking,
     lastAttackTime |-> lastAttackTime, lastHitTime |-> lastHitTime,
     enemiesKilled |-> enemiesKilled, gameOver |-> gameOver, victory |-> victory,
     touchDir |-> touchDir, touchAttack |-> touchAttack, playerVel |-> playerVel,
     enemies |-> enemies, hearts |-> hearts, sword |-> sword,
     attackTimer |-> attackTimer, projs |-> projs,
     chestOpened |-> chestOpened, triforcePieces |-> triforcePieces, maxHP |-> maxHP,
     restarts |-> restarts]

CommitScene(s) ==
    /\ playerHP' = s.playerHP /\ facing' = s.facing /\ isAttacking' = s.isAttacking
    /\ lastAttackTime' = s.lastAttackTime /\ lastHitTime' = s.lastHitTime
    /\ enemiesKilled' = s.enemiesKilled /\ gameOver' = s.gameOver
    /\ victory' = s.victory /\ touchDir' = s.touchDir /\ touchAttack' = s.touchAttack
    /\ playerVel' = s.playerVel /\ enemies' = s.enemies /\ hearts' = s.hearts
    /\ sword' = s.sword /\ attackTimer' = s.attackTimer /\ projs' = s.projs
    /\ chestOpened' = s.chestOpened /\ triforcePieces' = s.triforcePieces
    /\ maxHP' = s.maxHP /\ restarts' = s.restarts

Commit(s) == CommitScene(s) /\ UNCHANGED Pure

\* ------------------------------------------------------------------ win / lose
showVictory(s) == [s EXCEPT !.victory = TRUE, !.playerVel = ZeroVel]

showGameOver(s) == [s EXCEPT !.gameOver = TRUE, !.playerVel = ZeroVel]

\* ---------------------------------------------------------------------- combat
\* variant of _killEnemy that counts the kill without flagging the enemy
killEnemy_unflagged(s, k, now) ==
    IF s.enemies[k].isDying THEN s
    ELSE [s EXCEPT !.enemies[k].dieAt = now + DEATH_TWEEN_DUR,
                   !.enemiesKilled = @ + 1]

\* variant of _killEnemy without the isDying guard
killEnemy_recount(s, k, now) ==
    [s EXCEPT !.enemies[k].isDying = TRUE,
              !.enemies[k].dieAt = now + DEATH_TWEEN_DUR,
              !.enemiesKilled = @ + 1]

\* _killEnemy(enemy): flags the enemy dying, counts it, starts the death tween
killEnemy(s, k, now) ==
    IF s.enemies[k].isDying THEN s
    ELSE [s EXCEPT !.enemies[k].isDying = TRUE,
                   !.enemies[k].dieAt = now + DEATH_TWEEN_DUR,
                   !.enemiesKilled = @ + 1]

\* variant of _damageEnemy that kills one hit point early
damageEnemy_early(s, k, now) ==
    IF s.enemies[k].isDying THEN s
    ELSE LET hp1 == (IF s.enemies[k].hp = 0 THEN 1 ELSE s.enemies[k].hp) - 1
             s1 == [s EXCEPT !.enemies[k].hp = hp1, !.enemies[k].acts = @ + 1,
                             !.enemies[k].tinted = TRUE,
                             !.enemies[k].tintAt = now + TINT_DUR]
         IN  IF hp1 <= 1 THEN killEnemy(s1, k, now) ELSE s1

\* _damageEnemy(enemy): one melee activation with its white flash and the
\* timer that ends it; acts counts the activations absorbed
damageEnemy(s, k, now) ==
    IF s.enemies[k].isDying THEN s
    ELSE LET hp1 == (IF s.enemies[k].hp = 0 THEN 1 ELSE s.enemies[k].hp) - 1
             s1 == [s EXCEPT !.enemies[k].hp = hp1, !.enemies[k].acts = @ + 1,
                             !.enemies[k].tinted = TRUE,
                             !.enemies[k].tintAt = now + TINT_DUR]
         IN  IF hp1 <= 0 THEN killEnemy(s1, k, now) ELSE s1

\* variant of the sword overlap that leaves the hitbox in the world
swordOverlap_keepsHitbox(s, k, now) ==
    IF s.enemies[k].isDying THEN s
    ELSE LET s1 == damageEnemy(s, k, now)
         IN  [s1 EXCEPT !.sword.hits = @ + (s1.enemies[k].acts - s.enemies[k].acts)]

\* the swordGroup / enemies overlap of create(): processCallback, then the
\* callback (_damageEnemy, then the hitbox is destroyed)
swordOverlap(s, k, now) ==
    IF s.enemies[k].isDying THEN s
    ELSE LET s1 == damageEnemy(s, k, now)
         IN  [s1 EXCEPT !.sword.active = FALSE,
                        !.sword.destroys = @ + 1,
                        !.sword.hits = @ + (s1.enemies[k].acts - s.enemies[k].acts)]

\* variant of _damagePlayer without the invincibility window
damagePlayer_noWindow(s, off, now) ==
    LET s1 == [s EXCEPT !.lastHitTime = now,
                        !.playerHP = @ - ENEMY_DMG,
                        !.playerVel = calcKnockbackVelocity(off, KNOCKBACK_FORCE)]
    IN  IF s1.playerHP <= 0
        THEN showGameOver([s1 EXCEPT !.playerHP = 0])
        ELSE s1

\* variant of _damagePlayer that applies no knockback
damagePlayer_noKnockback(s, off, now) ==
    IF now - s.lastHitTime < IFRAMES_DUR THEN s
    ELSE LET s1 == [s EXCEPT !.lastHitTime = now,
                             !.playerHP = @ - ENEMY_DMG]
         IN  IF s1.playerHP <= 0
             THEN showGameOver([s1 EXCEPT !.playerHP = 0])
             ELSE s1

\* variant of _damagePlayer that ends the game only below 0
damagePlayer_lateGameOver(s, off, now) ==
    IF now - s.lastHitTime < IFRAMES_DUR THEN s
    ELSE LET s1 == [s EXCEPT !.lastHitTime = now,
                             !.playerHP = @ - ENEMY_DMG,
                             !.playerVel = calcKnockbackVelocity(off, KNOCKBACK_FORCE)]
         IN  IF s1.playerHP < 0
             THEN showGameOver([s1 EXCEPT !.playerHP = 0])
             ELSE s1

\* _damagePlayer(source): off is the vector from the source to the player
damagePlayer(s, off, now) ==
    IF now - s.lastHitTime < IFRAMES_DUR THEN s
    ELSE LET s1 == [s EXCEPT !.lastHitTime = now,
                             !.playerHP = @ - ENEMY_DMG,
                             !.playerVel = calcKnockbackVelocity(off, KNOCKBACK_FORCE)]
         IN  IF s1.playerHP <= 0
             THEN showGameOver([s1 EXCEPT !.playerHP = 0])
             ELSE s1

\* _onPlayerHit(player, enemy)
onPlayerHit(s, k, off, now) ==
    IF s.enemies[k].isDying THEN s ELSE damagePlayer(s, off, now)

\* variant of _onPlayerHitByProj that lets a projectile pass through a shielded
\* player
onPlayerHitByProj_passesShield(s, p, off, now) ==
    IF now - s.lastHitTime < IFRAMES_DUR THEN s
    ELSE [damagePlayer(s, off, now) EXCEPT !.projs[p].st = "dead",
                                           !.projs[p].destroys = @ + 1]

\* _onPlayerHitByProj(player, proj): damage, then the projectile is destroyed
\* (its lifetime timer stays pending)
onPlayerHitByProj(s, p, off, now) ==
    [damagePlayer(s, off, now) EXCEPT !.projs[p].st = "dead",
                                      !.projs[p].destroys = @ + 1]

\* the heart pickup overlap registered in _createEnemies
pickupHeart(s, k) ==
    [s EXCEPT !.playerHP = Min(MAX_HP, @ + HEART_HP), !.hearts[k] = @ - 1]

\* variant of the death tween's onComplete that leaves the enemy in the world
deathTweenComplete_keepsEnemy(s, k) ==
    [s EXCEPT !.hearts[k] = @ + 1,
              !.enemies[k].drops = @ + 1,
              !.enemies[k].dieAt = NoTimer]

\* onComplete of the death tween of _killEnemy: the heart drops, the enemy goes
deathTweenComplete(s, k) ==
    [s EXCEPT !.hearts[k] = @ + 1,
              !.enemies[k].drops = @ + 1,
              !.enemies[k].active = FALSE,
              !.enemies[k].dieAt = NoTimer,
              \* destroyed: its fields are never read again
              !.enemies[k].tinted = FALSE,
              !.enemies[k].lastShotTime = 0]

\* variant of the attack timer callback that destroys the hitbox unchecked
attackEnd_unchecked(s) ==
    [s EXCEPT !.sword.active = FALSE,
              !.sword.destroys = @ + 1,
              !.isAttacking = FALSE,
              !.attackTimer = NoTimer]

\* variant of the ATTACK_DUR callback that ends the attack only when it still
\* finds the hitbox
attackEnd_onlyWithSword(s) ==
    [s EXCEPT !.sword.active = IF s.sword.active THEN FALSE ELSE @,
              !.sword.destroys = IF s.sword.active THEN @ + 1 ELSE @,
              !.isAttacking = IF s.sword.active THEN FALSE ELSE @,
              !.attackTimer = NoTimer]

\* the delayedCall(ATTACK_DUR) callback of _handleAttack; destroys counts the
\* destroy() calls on the hitbox
attackEnd(s) ==
    [s EXCEPT !.sword.active = IF s.sword.active THEN FALSE ELSE @,
              !.sword.destroys = IF s.sword.active THEN @ + 1 ELSE @,
              !.isAttacking = FALSE,
              !.attackTimer = NoTimer]

\* the test of the delayedCall(150) callback of _damageEnemy
tintGuard(s, k) == s.enemies[k].active

\* the delayedCall(150) callback of _damageEnemy: the tint is cleared if the
\* enemy is still active
tintReset(s, k) ==
    [s EXCEPT !.enemies[k].tinted = IF tintGuard(s, k) THEN FALSE ELSE @,
              !.enemies[k].tintAt = NoTimer]

\* variant of the lifetime callback that destroys without testing proj.active
projExpire_unconditional(s, p) ==
    [s EXCEPT !.projs[p].st = "free",
              !.projs[p].expireAt = NoTimer,
              !.projs[p].spawnedAt = NoTimer,
              !.projs[p].destroys = @ + 1]

\* the delayedCall(PROJ_LIFETIME) callback of _enemyShoot
projExpire(s, p) ==
    [s EXCEPT !.projs[p].st = "free",
              !.projs[p].expireAt = NoTimer,
              !.projs[p].spawnedAt = NoTimer,
              !.projs[p].destroys = IF s.projs[p].st = "live" THEN @ + 1 ELSE @]

\* the enemyProjectiles / obstacleLayer collider of create()
projHitsObstacle(s, p) ==
    [s EXCEPT !.projs[p].st = "dead", !.projs[p].destroys = @ + 1]

\* ------------------------------------------------------------------- update()
\* _handlePlayerMovement(time): keys is the (vx, vy) read from the movement keys
handlePlayerMovement(s, keys) ==
    IF s.isAttacking THEN s
    ELSE LET v == IF keys = <<0, 0>> THEN s.touchDir ELSE keys
         IN  IF v # <<0, 0>>
             THEN [s EXCEPT !.playerVel = [dir |-> v, speed |-> PLAYER_SPEED],
                            !.facing = IF Abs(v[1]) >= Abs(v[2])
                                       THEN (IF v[1] > 0 THEN "right" ELSE "left")
                                       ELSE (IF v[2] > 0 THEN "down" ELSE "up")]
             ELSE [s EXCEPT !.playerVel = ZeroVel]

\* isAttackReady(justPressed, isAttacking, time, lastAttackTime, cd) of the
\* scene utilities
isAttackReady(justPressed, isAttacking_, time_, lastAttackTime_, cd) ==
    justPressed /\ ~isAttacking_ /\ (time_ - lastAttackTime_) > cd

\* variant of the attack condition that is ready at exactly the cooldown
attackReady_atCooldown(s, now, justDown) ==
    /\ justDown \/ s.touchAttack
    /\ ~s.isAttacking
    /\ now - s.lastAttackTime >= ATTACK_CD

\* the attack condition of _handleAttack
attackReady(s, now, justDown) ==
    /\ justDown \/ s.touchAttack
    /\ ~s.isAttacking
    /\ now - s.lastAttackTime > ATTACK_CD

\* variant of _handleAttack without the cooldown test
handleAttack_noCooldown(s, now, justDown) ==
    IF (justDown \/ s.touchAttack) /\ ~s.isAttacking
    THEN [s EXCEPT !.isAttacking = TRUE, !.lastAttackTime = now,
                   !.touchAttack = FALSE, !.playerVel = ZeroVel,
                   !.sword = [active |-> TRUE, hits |-> 0, destroys |-> 0],
                   !.attackTimer = now + ATTACK_DUR]
    ELSE s

\* _handleAttack(time): justDown is JustDown(spaceKey)
handleAttack(s, now, justDown) ==
    IF attackReady(s, now, justDown)
    THEN [s EXCEPT !.isAttacking = TRUE, !.lastAttackTime = now,
                   !.touchAttack = FALSE, !.playerVel = ZeroVel,
                   !.sword = [active |-> TRUE, hits |-> 0, destroys |-> 0],
                   !.attackTimer = now + ATTACK_DUR]
    ELSE s

\* the lowest free projectile slot (0 when there is none)
freeSlot(s) ==
    IF \E p \in Projs : s.projs[p].st = "free"
    THEN CHOOSE p \in Projs : /\ s.projs[p].st = "free"
                              /\ \A q \in Projs : s.projs[q].st = "free" => p <= q
    ELSE 0

\* _enemyShoot(enemy): a projectile with its PROJ_LIFETIME timer
enemyShoot(s, now) ==
    [s EXCEPT !.projs[freeSlot(s)] =
                  [st |-> "live", expireAt |-> now + PROJ_LIFETIME,
                   spawnedAt |-> now, destroys |-> 0]]

\* whether enemy k shoots in this frame (near: within 1.5 x CHASE_RANGE)
shotDue(s, k, now, near) ==
    /\ s.enemies[k].active /\ ~s.enemies[k].isDying
    /\ ENEMY_CONFIGS[typeOf(k)].shoots
    /\ k \in near
    /\ now - s.enemies[k].lastShotTime >
           (IF ENEMY_CONFIGS[typeOf(k)].shootCd = 0 THEN DEFAULT_SHOOT_CD
            ELSE ENEMY_CONFIGS[typeOf(k)].shootCd)

\* the shooting part of the per-enemy body of _updateEnemies, in the version
\* of the scene whose loop calls _enemyShoot itself
updateEnemy(s, k, now, near) ==
    IF shotDue(s, k, now, near)
    THEN [enemyShoot(s, now) EXCEPT !.enemies[k].lastShotTime = now]
    ELSE s

\* _updateEnemies(time): forEach over the group, in spawn order
RECURSIVE updateEnemiesFrom(_, _, _, _)
updateEnemiesFrom(s, k, now, near) ==
    IF k > NUM_ENEMIES THEN s
    ELSE updateEnemiesFrom(updateEnemy(s, k, now, near), k + 1, now, near)

updateEnemies(s, now, near) == updateEnemiesFrom(s, 1, now, near)

\* the shoot check of updateEnemy(enemy, player, time) of the scene utilities:
\* it records the shot time; the function has no access to the projectile group
utils_updateEnemy(s, k, now, near) ==
    IF shotDue(s, k, now, near)
    THEN [s EXCEPT !.enemies[k].lastShotTime = now]
    ELSE s

\* updateEnemies(enemies, player, time) of the scene utilities
RECURSIVE utils_updateEnemiesFrom(_, _, _, _)
utils_updateEnemiesFrom(s, k, now, near) ==
    IF k > NUM_ENEMIES THEN s
    ELSE utils_updateEnemiesFrom(utils_updateEnemy(s, k, now, near), k + 1, now, near)

\* _updateEnemies(time) of the scene that delegates to the utilities
delegating_updateEnemies(s, now, near) == utils_updateEnemiesFrom(s, 1, now, near)

\* variant of the content effect that raises the maximum without healing
applyChestContent_noHeal(s) ==
    LET s1 == [s EXCEPT !.triforcePieces = @ + 1]
    IN  IF s1.triforcePieces >= NUM_CHESTS
        THEN [s1 EXCEPT !.maxHP = TRIFORCE_BONUS_HP]
        ELSE s1

\* the reward of a chest: a triforce piece; all pieces raise the maximum HP
applyChestContent(s) ==
    LET s1 == [s EXCEPT !.triforcePieces = @ + 1]
    IN  IF s1.triforcePieces >= NUM_CHESTS
        THEN [s1 EXCEPT !.maxHP = TRIFORCE_BONUS_HP, !.playerHP = TRIFORCE_BONUS_HP]
        ELSE s1

\* variant of the chest check that does not look at the opened flag
updateChests_reopen(s, c) ==
    IF c \in Chests
    THEN applyChestContent([s EXCEPT !.chestOpened = @ \cup {c}])
    ELSE s

\* the per-frame chest check: c is the chest in range (0: none)
updateChests(s, c) ==
    IF c \in Chests /\ c \notin s.chestOpened
    THEN applyChestContent([s EXCEPT !.chestOpened = @ \cup {c}])
    ELSE s

\* _updateUI(): the victory check
updateUI(s) ==
    IF NUM_ENEMIES - s.enemiesKilled <= 0 /\ ~s.victory THEN showVictory(s) ELSE s

\* scene.restart(): the scene shuts down; init() and create() run before the
\* next frame
restart(s, n, shots) == create(init([s EXCEPT !.restarts = @ + 1]), n, shots)

\* variant of update(time) that reads the restart key first
update_restartAnytime(s, now, keys, justDown, near, c, r, n, shots) ==
    IF r THEN restart(s, n, shots)
    ELSE IF s.gameOver \/ s.victory THEN s
    ELSE updateUI(updateChests(updateEnemies(
             handleAttack(handlePlayerMovement(s, keys), now, justDown), now, near), c))

\* update(time): r is JustDown(restartKey); n and shots are the draws of the
\* spawn search of the next session
update(s, now, keys, justDown, near, c, r, n, shots) ==
    IF s.gameOver \/ s.victory
    THEN IF r THEN restart(s, n, shots) ELSE s
    ELSE updateUI(updateChests(updateEnemies(
             handleAttack(handlePlayerMovement(s, keys), now, justDown), now, near), c))

\* update(time) of the scene whose _updateEnemies delegates to the utilities,
\* while the game runs
delegating_update(s, now, keys, justDown, near) ==
    IF s.gameOver \/ s.victory
    THEN s
    ELSE updateUI(delegating_updateEnemies(
             handleAttack(handlePlayerMovement(s, keys), now, justDown), now, near))

\* ------------------------------------------------------- updateEnemy (AI)
\* Phaser.Math.Clamp(value, min, max)
Clamp(v, lo, hi) == Max(lo, Min(hi, v))

\* square of Phaser.Math.Distance.Between(a, b)
DistSq(a, b) == (a[1] - b[1]) * (a[1] - b[1]) + (a[2] - b[2]) * (a[2] - b[2])

\* an enemy of the given type as _createEnemies leaves it at position pos
newAIEnemy(type, pos, shot) ==
    [pos |-> pos, isDying |-> FALSE, isChasing |-> FALSE,
     shoots |-> ENEMY_CONFIGS[type].shoots, shootCd |-> ENEMY_CONFIGS[type].shootCd,
     lastShotTime |-> IF ENEMY_CONFIGS[type].shoots THEN shot ELSE 0,
     patrolTarget |-> pos, patrolTimer |-> 0, move |-> "rest"]

\* no enemy under test
NoAI == newAIEnemy("goblin", <<0, 0>>, 0)

\* variant of updateEnemy that keeps chasing inside the shooting range
updateEnemyAI_hysteresis(e, player, now, draw) ==
    IF e.isDying THEN e
    ELSE IF DistSq(e.pos, player) < CHASE_RANGE * CHASE_RANGE
            \/ (e.isChasing /\ 4 * DistSq(e.pos, player) < 9 * CHASE_RANGE * CHASE_RANGE)
         THEN [e EXCEPT !.isChasing = TRUE, !.move = "chase"]
         ELSE [e EXCEPT !.isChasing = FALSE, !.move = "rest"]

\* variant of updateEnemy that re-rolls the patrol only below 0
updateEnemyAI_lateReroll(e, player, now, draw) ==
    IF e.isDying THEN e
    ELSE
      LET d2 == DistSq(e.pos, player)
          timer == e.patrolTimer - PATROL_TICK
          target == IF timer < 0
                    THEN <<Clamp(e.pos[1] + draw.dx, TILE_SIZE * 2, (MAP_COLS - 2) * TILE_SIZE),
                           Clamp(e.pos[2] + draw.dy, TILE_SIZE * 2, (MAP_ROWS - 2) * TILE_SIZE)>>
                    ELSE e.patrolTarget
          e1 == IF d2 < CHASE_RANGE * CHASE_RANGE
                THEN [e EXCEPT !.isChasing = TRUE, !.move = "chase"]
                ELSE [e EXCEPT !.isChasing = FALSE,
                               !.patrolTimer = IF timer < 0 THEN draw.timer ELSE timer,
                               !.patrolTarget = target,
                               !.move = IF DistSq(e.pos, target) > PATROL_ARRIVE * PATROL_ARRIVE
                                        THEN "patrol" ELSE "rest"]
          cd == IF e.shootCd = 0 THEN DEFAULT_SHOOT_CD ELSE e.shootCd
      IN  IF e.shoots /\ 4 * d2 < 9 * CHASE_RANGE * CHASE_RANGE /\ now - e.lastShotTime > cd
          THEN [e1 EXCEPT !.lastShotTime = now]
          ELSE e1

\* variant of updateEnemy without the isDying guard
updateEnemyAI_undead(e, player, now, draw) ==
    LET d2 == DistSq(e.pos, player)
        timer == e.patrolTimer - PATROL_TICK
        target == IF timer <= 0
                  THEN <<Clamp(e.pos[1] + draw.dx, TILE_SIZE * 2, (MAP_COLS - 2) * TILE_SIZE),
                         Clamp(e.pos[2] + draw.dy, TILE_SIZE * 2, (MAP_ROWS - 2) * TILE_SIZE)>>
                  ELSE e.patrolTarget
        e1 == IF d2 < CHASE_RANGE * CHASE_RANGE
              THEN [e EXCEPT !.isChasing = TRUE, !.move = "chase"]
              ELSE [e EXCEPT !.isChasing = FALSE,
                             !.patrolTimer = IF timer <= 0 THEN draw.timer ELSE timer,
                             !.patrolTarget = target,
                             !.move = IF DistSq(e.pos, target) > PATROL_ARRIVE * PATROL_ARRIVE
                                      THEN "patrol" ELSE "rest"]
        cd == IF e.shootCd = 0 THEN DEFAULT_SHOOT_CD ELSE e.shootCd
    IN  IF e.shoots /\ 4 * d2 < 9 * CHASE_RANGE * CHASE_RANGE /\ now - e.lastShotTime > cd
        THEN [e1 EXCEPT !.lastShotTime = now]
        ELSE e1

\* updateEnemy(enemy, player, time) of the scene utilities; draw holds the
\* values of Between(2000, 4000) and of the two Between(-80, 80); move is the
\* velocity set: "chase" at full speed toward the player, "patrol" at half
\* speed toward patrolTarget, "rest" for (0, 0)
updateEnemyAI(e, player, now, draw) ==
    IF e.isDying THEN e
    ELSE
      LET d2 == DistSq(e.pos, player)
          timer == e.patrolTimer - PATROL_TICK
          target == IF timer <= 0
                    THEN <<Clamp(e.pos[1] + draw.dx, TILE_SIZE * 2, (MAP_COLS - 2) * TILE_SIZE),
                           Clamp(e.pos[2] + draw.dy, TILE_SIZE * 2, (MAP_ROWS - 2) * TILE_SIZE)>>
                    ELSE e.patrolTarget
          e1 == IF d2 < CHASE_RANGE * CHASE_RANGE
                THEN [e EXCEPT !.isChasing = TRUE, !.move = "chase"]
                ELSE [e EXCEPT !.isChasing = FALSE,
                               !.patrolTimer = IF timer <= 0 THEN draw.timer ELSE timer,
                               !.patrolTarget = target,
                               !.move = IF DistSq(e.pos, target) > PATROL_ARRIVE * PATROL_ARRIVE
                                        THEN "patrol" ELSE "rest"]
          cd == IF e.shootCd = 0 THEN DEFAULT_SHOOT_CD ELSE e.shootCd
      IN  IF e.shoots /\ 4 * d2 < 9 * CHASE_RANGE * CHASE_RANGE /\ now - e.lastShotTime > cd
          THEN [e1 EXCEPT !.lastShotTime = now]
          ELSE e1

\* -------------------------------------------------------------- generateMap
\* tiles: 0 grass, 1 tree, 2 rock; Hole is an array index never written
Hole == 0 - 1

\* the tile pushed for a Math.random() value rnd, in percent
tileOf(rnd) == IF rnd < GRASS_BELOW THEN 0 ELSE IF rnd < TREE_BELOW THEN 1 ELSE 2

\* the Math.random() value drawn for cell (r, c): the draws of a call follow
\* the pattern fill, cell by cell
rndAt(fill, cols, r, c) == fill[((r * cols + c) % Len(fill)) + 1]

\* variant of the cell rule that leaves no clear spawn area
fillCell_noSpawnArea(cols, rows, r, c, rnd) ==
    IF r = 0 \/ r = rows - 1 \/ c = 0 \/ c = cols - 1 THEN 1
    ELSE tileOf(rnd)

\* the body of the two fill loops of generateMap for cell (r, c)
fillCell(cols, rows, r, c, rnd) ==
    IF r = 0 \/ r = rows - 1 \/ c = 0 \/ c = cols - 1 THEN 1
    ELSE IF Abs(c - (cols \div 2)) < SPAWN_CLEAR /\ Abs(r - (rows \div 2)) < SPAWN_CLEAR THEN 0
    ELSE tileOf(rnd)

\* the grid after the fill loops: row r of the source is element r + 1
fillMap(cols, rows, fill) ==
    [r \in 1..rows |->
        [c \in 1..cols |-> fillCell(cols, rows, r - 1, c - 1, rndAt(fill, cols, r - 1, c - 1))]]

\* map[r] is an array (not undefined)
hasRow(map, r) == r >= 0 /\ r < Len(map)

\* row[c] = 0 on a JavaScript array: a write at or past the length extends it
writeCell(row, c) ==
    [i \in 1..Max(Len(row), c + 1) |->
        IF i = c + 1 THEN 0 ELSE IF i <= Len(row) THEN row[i] ELSE Hole]

\* map[r][c] = 0, for an existing row r
carve(map, r, c) == [map EXCEPT ![r + 1] = writeCell(@, c)]

\* a call of generateMap before its first statement
startGen(cols, rows, fill) ==
    [cols |-> cols, rows |-> rows, fill |-> fill, pc |-> "fill", i |-> 0, map |-> <<>>]

\* no call of generateMap
NoGen == [startGen(0, 0, <<0>>) EXCEPT !.pc = "idle"]

\* one step of generateMap: the fill loops; one iteration (or the exit) of the
\* first carve loop; one iteration of the second, or its exit and the return.
\* A TypeError (write to a row that is undefined) ends the call in "error".
genStep(g) ==
    LET midR == g.rows \div 2
        midC == g.cols \div 2
    IN  CASE g.pc = "fill" ->
                 [g EXCEPT !.map = fillMap(g.cols, g.rows, g.fill),
                           !.pc = "carveRows", !.i = 1]
          [] g.pc = "carveRows" ->
                 IF g.i < g.cols - 1
                 THEN IF hasRow(g.map, midR) /\ hasRow(g.map, midR - 1)
                      THEN [g EXCEPT !.map = carve(carve(g.map, midR, g.i), midR - 1, g.i),
                                     !.i = @ + 1]
                      ELSE [g EXCEPT !.pc = "error"]
                 ELSE [g EXCEPT !.pc = "carveCols", !.i = 1]
          [] g.pc = "carveCols" ->
                 IF g.i < g.rows - 1
                 THEN [g EXCEPT !.map = carve(carve(g.map, g.i, midC), g.i, midC + 1),
                                !.i = @ + 1]
                 ELSE [g EXCEPT !.pc = "done"]
          [] OTHER -> g

\* generateMap(cols, rows) run to its return or its error
RECURSIVE runGen(_)
runGen(g) == IF g.pc \in {"done", "error", "idle"} THEN g ELSE runGen(genStep(g))

generateMap(cols, rows, fill) == runGen(startGen(cols, rows, fill))

\* --------------------------------------------------- generateChestPositions
\* Math.floor(rng() * n) + 2 for a draw of rng() given in percent
sampleIndex(pct, n) == ((pct * n) \div 100) + 2

\* the world position of the centre of tile (r, c), as <<x, y>>
tileCentre(r, c) ==
    <<c * TILE_SIZE + TILE_SIZE \div 2, r * TILE_SIZE + TILE_SIZE \div 2>>

\* map[r][c] of a JavaScript array of arrays: Hole for undefined
cellAt(map, r, c) ==
    IF c >= 0 /\ c < Len(map[r + 1]) THEN map[r + 1][c + 1] ELSE Hole

\* positions.some(p => Math.hypot(p.x - wx, p.y - wy) < minSep)
tooClose(positions, w) ==
    \E i \in 1..Len(positions) :
        DistSq(positions[i], w) < (MIN_SEP_TILES * TILE_SIZE) * (MIN_SEP_TILES * TILE_SIZE)

\* a call of generateChestPositions(map, count, cols, rows, rng) at its loop
startChest(map, count, cols, rows) ==
    [map |-> map, count |-> count, cols |-> cols, rows |-> rows,
     positions |-> <<>>, attempts |-> 0, pc |-> "loop"]

\* no call of generateChestPositions
NoChest == [startChest(<<>>, 0, 0, 0) EXCEPT !.pc = "idle"]

\* the loop test
chestLooping(ch) ==
    ch.pc = "loop" /\ Len(ch.positions) < ch.count /\ ch.attempts < MAX_ATTEMPTS

\* one iteration of the sampling loop with the draws u and v of rng() (percent);
\* reading map[r][c] of a row that is undefined is a TypeError
chestAttempt(ch, u, v) ==
    LET c == sampleIndex(u, ch.cols - 4)
        r == sampleIndex(v, ch.rows - 4)
        n == [ch EXCEPT !.attempts = @ + 1]
    IN  IF ~hasRow(ch.map, r) THEN [n EXCEPT !.pc = "error"]
        ELSE IF cellAt(ch.map, r, c) # 0 THEN n
        ELSE IF Abs(c - (ch.cols \div 2)) < CHEST_CLEAR
                /\ Abs(r - (ch.rows \div 2)) < CHEST_CLEAR THEN n
        ELSE IF tooClose(ch.positions, tileCentre(r, c)) THEN n
        ELSE [n EXCEPT !.positions = Append(@, tileCentre(r, c))]

\* the loop exit and the return
chestReturn(ch) == [ch EXCEPT !.pc = "done"]

\* ------------------------------------------------------------ pure helpers
Facings == {"up", "down", "left", "right"}

\* variant of the snapping in which a tie goes to the vertical axis
getFacingFromVelocity_vertTie(vx, vy, currentFacing) ==
    IF vx = 0 /\ vy = 0 THEN currentFacing
    ELSE IF Abs(vx) > Abs(vy)
         THEN (IF vx > 0 THEN "right" ELSE "left")
         ELSE (IF vy > 0 THEN "down" ELSE "up")

\* getFacingFromVelocity(vx, vy, currentFacing)
getFacingFromVelocity(vx, vy, currentFacing) ==
    IF vx = 0 /\ vy = 0 THEN currentFacing
    ELSE IF Abs(vx) >= Abs(vy)
         THEN (IF vx > 0 THEN "right" ELSE "left")
         ELSE (IF vy > 0 THEN "down" ELSE "up")

\* the facing after _handlePlayerMovement in a frame without movement keys in
\* which the joystick reports (vx, vy), the player facing currentFacing and
\* not attacking
sceneFacing(s, vx, vy, currentFacing) ==
    handlePlayerMovement([s EXCEPT !.facing = currentFacing, !.touchDir = <<vx, vy>>,
                                   !.isAttacking = FALSE], <<0, 0>>).facing

\* A double near an integer: <<n, t>> stands for n + t * 10^-20.  Math.cos and
\* Math.sin of the doubles nearest to pi / 2 and pi are not 0:
\* Math.cos(Math.PI / 2) = 6.123...e-17 and Math.sin(Math.PI) = 1.2246...e-16.
COS_HALF_PI == 6123
SIN_PI == 12246

\* Phaser.Math.Angle.Between(x1, y1, x2, y2) = Math.atan2(y2 - y1, x2 - x1), for
\* points on a common horizontal or vertical line (atan2(0, 0) = 0)
angleBetween(source, player) ==
    LET dx == player[1] - source[1]
        dy == player[2] - source[2]
    IN  IF dy = 0 THEN (IF dx >= 0 THEN "0" ELSE "pi")
        ELSE IF dy > 0 THEN "pi/2" ELSE "-pi/2"

\* Math.cos(angle), Math.sin(angle)
cosOf(angle) ==
    CASE angle = "0" -> <<1, 0>>
      [] angle = "pi" -> <<0 - 1, 0>>
      [] OTHER -> <<0, COS_HALF_PI>>

sinOf(angle) ==
    CASE angle = "0" -> <<0, 0>>
      [] angle = "pi" -> <<0, SIN_PI>>
      [] angle = "pi/2" -> <<1, 0>>
      [] OTHER -> <<0 - 1, 0>>

\* x * force
scale(x, force) == <<x[1] * force, x[2] * force>>

\* variant of the knockback in exact arithmetic: cos and sin of an exact
\* multiple of pi / 2
knockbackXY_exact(source, player, force) ==
    LET angle == angleBetween(source, player)
    IN  <<<<cosOf(angle)[1] * force, 0>>, <<sinOf(angle)[1] * force, 0>>>>

\* calcKnockbackVelocity(source, player, force) as numbers: <<vx, vy>>
knockbackXY(source, player, force) ==
    LET angle == angleBetween(source, player)
    IN  <<scale(cosOf(angle), force), scale(sinOf(angle), force)>>

\* a helper call before it returns
startCall(fn, args) == [fn |-> fn, args |-> args, ret |-> <<>>, pc |-> "called"]

\* no helper call
NoCall == [startCall("none", <<>>) EXCEPT !.pc = "idle"]

\* ------------------------------------------------------- enemy spawn loops
\* the maps the spawn loops run on: the 50 x 50 overworld with an all-grass
\* and with an all-tree random fill, and the all-grass 3 x 3 map of the tests
spawnMaps ==
    [grass |-> generateMap(MAP_COLS, MAP_ROWS, <<79>>).map,
     trees |-> generateMap(MAP_COLS, MAP_ROWS, <<80>>).map,
     small |-> [r \in 1..3 |-> [c \in 1..3 |-> 0]]]

\* where _createPlayer puts the player: the centre of the centre tile
playerStart == tileCentre(MAP_ROWS \div 2, MAP_COLS \div 2)

\* px, py of _createEnemies
sceneSpawnRef == <<(MAP_COLS \div 2) * TILE_SIZE, (MAP_ROWS \div 2) * TILE_SIZE>>

\* Phaser.Math.Between(lo, hi) for a draw of Math.random() given in 1/1000
phaserBetween(u, lo, hi) == ((u * (hi - lo + 1)) \div 1000) + lo

\* no position (null)
NoPos == <<0 - 1, 0 - 1>>

\* a spawn loop before its first iteration: impl is "scene" for
\* GameScene._createEnemies and "utils" for createEnemies of the utilities;
\* types lists the types of the enemies spawned, last is the position of the
\* newest one
startSpawn(impl, mapId, numEnemies, ref) ==
    [impl |-> impl, mapId |-> mapId, numEnemies |-> numEnemies, ref |-> ref,
     spawned |-> 0, attempts |-> 0, types |-> <<>>, last |-> NoPos, pc |-> "loop"]

\* no spawn loop running
NoSpawn == [startSpawn("scene", "small", 0, <<0, 0>>) EXCEPT !.pc = "idle"]

\* the loop test of both loops
spawnLooping(sp) ==
    sp.pc = "loop" /\ sp.spawned < sp.numEnemies /\ sp.attempts < SPAWN_ATTEMPTS

\* variant that picks the type by the attempt number
addEnemy_typeByAttempt(sp, pos) ==
    [sp EXCEPT !.types = Append(@, typeCycle[((sp.attempts - 1) % Len(typeCycle)) + 1]),
               !.last = pos, !.spawned = @ + 1]

\* the rest of the loop body after a position is accepted: the enemy of type
\* typeCycle[spawned] is created; reading config.texture of an undefined
\* config is a TypeError
addEnemy(sp, pos) ==
    IF sp.spawned >= Len(typeCycle)
    THEN [sp EXCEPT !.pc = "error"]
    ELSE [sp EXCEPT !.types = Append(@, typeCycle[sp.spawned + 1]),
                    !.last = pos, !.spawned = @ + 1]

\* one iteration of the loop of GameScene._createEnemies with the draws u, v
sceneSpawnAttempt(sp, u, v) ==
    LET c == phaserBetween(u, SPAWN_MARGIN, MAP_COLS - 4)
        r == phaserBetween(v, SPAWN_MARGIN, MAP_ROWS - 4)
        n == [sp EXCEPT !.attempts = @ + 1]
    IN  IF ~hasRow(spawnMaps[sp.mapId], r) THEN [n EXCEPT !.pc = "error"]
        ELSE IF cellAt(spawnMaps[sp.mapId], r, c) # 0 THEN n
        ELSE IF DistSq(tileCentre(r, c), sceneSpawnRef) < SPAWN_MIN_DIST * SPAWN_MIN_DIST THEN n
        ELSE addEnemy(n, tileCentre(r, c))

\* getValidEnemySpawn(mapData, playerPos, rng) with the draws u, v of rng()
getValidEnemySpawn(map, playerPos, u, v) ==
    LET rows == Len(map)
        cols == IF rows > 0 THEN Len(map[1]) ELSE 0
        c == ((u * Max(0, cols - 4)) \div 1000) + 2
        r == ((v * Max(0, rows - 4)) \div 1000) + 2
    IN  IF r >= rows \/ c >= cols THEN NoPos
        ELSE IF cellAt(map, r, c) # 0 THEN NoPos
        ELSE IF DistSq(tileCentre(r, c), playerPos) < SPAWN_MIN_DIST * SPAWN_MIN_DIST THEN NoPos
        ELSE tileCentre(r, c)

\* one iteration of the loop of createEnemies of the utilities
utilsSpawnAttempt(sp, u, v) ==
    LET pos == getValidEnemySpawn(spawnMaps[sp.mapId], sp.ref, u, v)
        n == [sp EXCEPT !.attempts = @ + 1]
    IN  IF pos = NoPos THEN n ELSE addEnemy(n, pos)

\* the loop exit (and, in the utilities, the return of the enemies)
spawnReturn(sp) == [sp EXCEPT !.pc = "done"]

\* ------------------------------------------------------------- specification
\* lastShotTime draws of one session: only the shooters' values are used
ShotDraws ==
    {[k \in Enemies |-> IF k = 2 THEN a ELSE IF k = 5 THEN b ELSE 0] :
        a \in ShotStagger, b \in ShotStagger}

InitScene(counts) ==
    /\ time = FirstFrameTime
    /\ inFrame = FALSE
    /\ frames = 0
    /\ \E n \in counts, shots \in ShotDraws :
          LET s == create(init(constructed), n, shots)
          IN  /\ playerHP = s.playerHP /\ facing = s.facing
              /\ isAttacking = s.isAttacking
              /\ lastAttackTime = s.lastAttackTime /\ lastHitTime = s.lastHitTime
              /\ enemiesKilled = s.enemiesKilled /\ gameOver = s.gameOver
              /\ victory = s.victory /\ touchDir = s.touchDir
              /\ touchAttack = s.touchAttack /\ playerVel = s.playerVel
              /\ enemies = s.enemies /\ hearts = s.hearts /\ sword = s.sword
              /\ attackTimer = s.attackTimer /\ projs = s.projs
              /\ chestOpened = s.chestOpened
              /\ triforcePieces = s.triforcePieces /\ maxHP = s.maxHP
              /\ restarts = s.restarts
    /\ ev = Quiet("create")

InitWith(counts) ==
    /\ InitScene(counts)
    /\ ai = NoAI /\ gen = NoGen /\ chest = NoChest /\ spawn = NoSpawn /\ call = NoCall

\* the numbers of enemies the bounded spawn search may place
SpawnCounts == 0..NUM_ENEMIES

Init == InitWith(SpawnCounts)

Engine == <<time, inFrame, frames>>

\* a delayed call or a tween is due in the current frame
TimersDue ==
    \/ attackTimer # NoTimer /\ time >= attackTimer
    \/ \E p \in Projs : projs[p].st # "free" /\ time >= projs[p].expireAt
    \/ \E k \in Enemies : enemies[k].dieAt # NoTimer /\ time >= enemies[k].dieAt
    \/ \E k \in Enemies : enemies[k].tintAt # NoTimer /\ time >= enemies[k].tintAt

\* the player is inside the invincibility window of the last hit
Shielded == time - lastHitTime < IFRAMES_DUR

\* the engine starts the next frame, d ms after the last one
BeginFrame(d, max) ==
    /\ ~inFrame /\ frames < max
    /\ time' = time + d /\ inFrame' = TRUE /\ frames' = frames + 1
    /\ ev' = Quiet("frame")
    /\ Commit(Scene)

\* pointerdown in the attack zone (right 30% of the screen)
PointerDownAttack ==
    /\ ~inFrame
    /\ Commit([Scene EXCEPT !.touchAttack = TRUE])
    /\ ev' = Quiet("input")
    /\ UNCHANGED Engine

\* pointermove with the pointer down in the joystick zone
PointerMove(dir) ==
    /\ ~inFrame
    /\ Commit([Scene EXCEPT !.touchDir = dir])
    /\ ev' = Quiet("input")
    /\ UNCHANGED Engine

\* pointerup
PointerUp ==
    /\ ~inFrame
    /\ Commit([Scene EXCEPT !.touchDir = <<0, 0>>, !.touchAttack = FALSE])
    /\ ev' = Quiet("input")
    /\ UNCHANGED Engine

\* the attack's delayed call fires
AttackTimer ==
    /\ inFrame /\ attackTimer # NoTimer /\ time >= attackTimer
    /\ Commit(attackEnd(Scene))
    /\ ev' = Quiet("timer")
    /\ UNCHANGED Engine

\* a projectile's lifetime timer fires
ProjTimer(p) ==
    /\ inFrame /\ projs[p].st # "free" /\ time >= projs[p].expireAt
    /\ Commit(projExpire(Scene, p))
    /\ ev' = Quiet("timer")
    /\ UNCHANGED Engine

\* the timer of an enemy's white flash fires; the event tells whether the
\* callback called clearTint()
TintTimer(k) ==
    /\ inFrame /\ enemies[k].tintAt # NoTimer /\ time >= enemies[k].tintAt
    /\ Commit(tintReset(Scene, k))
    /\ ev' = Quiet(IF tintGuard(Scene, k) THEN "clearTint" ELSE "tintSkipped")
    /\ UNCHANGED Engine

\* an enemy's death tween completes
DeathTween(k) ==
    /\ inFrame /\ enemies[k].dieAt # NoTimer /\ time >= enemies[k].dieAt
    /\ Commit(deathTweenComplete(Scene, k))
    /\ ev' = Quiet("tween")
    /\ UNCHANGED Engine

\* the physics step reports the sword hitbox overlapping enemy k
SwordHitsEnemy(k) ==
    /\ inFrame /\ ~TimersDue
    /\ sword.active /\ enemies[k].active
    /\ Commit(swordOverlap(Scene, k, time))
    /\ ev' = Ev("swordOverlap", enemies[k].isDying, FALSE)
    /\ UNCHANGED Engine

\* the physics step reports the player overlapping enemy k
PlayerTouchesEnemy(k, off) ==
    /\ inFrame /\ ~TimersDue
    /\ enemies[k].active
    /\ Commit(onPlayerHit(Scene, k, off, time))
    /\ ev' = Ev("onPlayerHit", enemies[k].isDying, Shielded)
    /\ UNCHANGED Engine

\* the physics step reports the player overlapping projectile p
PlayerHitByProj(p, off) ==
    /\ inFrame /\ ~TimersDue
    /\ projs[p].st = "live"
    /\ Commit(onPlayerHitByProj(Scene, p, off, time))
    /\ ev' = Ev("onPlayerHitByProj", FALSE, Shielded)
    /\ UNCHANGED Engine

\* the physics step reports projectile p colliding with an obstacle
ProjHitsObstacle(p) ==
    /\ inFrame /\ ~TimersDue
    /\ projs[p].st = "live"
    /\ Commit(projHitsObstacle(Scene, p))
    /\ ev' = Quiet("collide")
    /\ UNCHANGED Engine

\* the physics step reports the player overlapping a heart dropped by enemy k
PlayerTouchesHeart(k) ==
    /\ inFrame /\ ~TimersDue
    /\ hearts[k] > 0
    /\ Commit(pickupHeart(Scene, k))
    /\ ev' = Quiet("pickupHeart")
    /\ UNCHANGED Engine

\* the shooters that may fire together: one free slot each
CanShoot(near) ==
    Cardinality({k \in near : shotDue(Scene, k, time, near)})
        <= Cardinality({p \in Projs : projs[p].st = "free"})

\* the draws of a session that is never created
NoDraw == [k \in Enemies |-> 0]

\* update(time) while the game runs; ends the frame
UpdateRunning(keys, justDown, near, c, r) ==
    /\ inFrame /\ ~TimersDue
    /\ ~(gameOver \/ victory)
    /\ CanShoot(near)
    /\ Commit(update(Scene, time, keys, justDown, near, c, r, 0, NoDraw))
    /\ ev' = Quiet(IF restarts' = restarts THEN "update" ELSE "restart")
    /\ inFrame' = FALSE
    /\ UNCHANGED <<time, frames>>

\* update(time) on the game-over / victory screen, restart key not pressed
UpdateEnded ==
    /\ inFrame /\ ~TimersDue
    /\ gameOver \/ victory
    /\ Commit(update(Scene, time, <<0, 0>>, FALSE, {}, 0, FALSE, 0, NoDraw))
    /\ ev' = Quiet(IF restarts' = restarts THEN "update" ELSE "restart")
    /\ inFrame' = FALSE
    /\ UNCHANGED <<time, frames>>

\* update(time) on the game-over / victory screen, restart key just pressed
UpdateRestart(n, shots) ==
    /\ inFrame /\ ~TimersDue
    /\ gameOver \/ victory
    /\ restarts < MaxRestarts
    /\ Commit(update(Scene, time, <<0, 0>>, FALSE, {}, 0, TRUE, n, shots))
    /\ ev' = Quiet(IF restarts' = restarts THEN "update" ELSE "restart")
    /\ inFrame' = FALSE
    /\ UNCHANGED <<time, frames>>

\* update(time) of the scene whose _updateEnemies delegates to the utilities
UpdateDelegating(keys, near) ==
    /\ inFrame /\ ~TimersDue
    /\ ~(gameOver \/ victory)
    /\ Commit(delegating_update(Scene, time, keys, FALSE, near))
    /\ ev' = Quiet("update")
    /\ inFrame' = FALSE
    /\ UNCHANGED <<time, frames>>

\* the chest within interaction range of the player in a frame, or 0 for none:
\* the chest opened last (the player still stands next to it) or the unopened
\* chest the player may reach next (chests are opened in index order: they are
\* interchangeable)
ChestInRange == {0} \cup {c \in Chests : c = triforcePieces \/ c = triforcePieces + 1}

\* the shooters within range of the player in a frame
NearSets == {{}, {2}}

\* --- melee: sword, kills, heart drops; nothing harms the player
NextMelee ==
    \/ \E d \in Deltas : BeginFrame(d, MaxFramesMelee)
    \/ AttackTimer
    \/ \E k \in Enemies : TintTimer(k)
    \/ \E k \in Enemies : DeathTween(k)
    \/ \E k \in Enemies : SwordHitsEnemy(k)
    \/ \E k \in Enemies : PlayerTouchesHeart(k)
    \/ \E keys \in KeyDirs, justDown \in BOOLEAN :
          UpdateRunning(keys, justDown, {}, 0, FALSE)

InitMelee == Init /\ \A k \in Enemies : enemies[k].lastShotTime = 0

SpecMelee == InitMelee /\ [][NextMelee]_vars

\* --- rewards: chests and heart pickups, played with touch and keyboard
NextReward ==
    \/ \E d \in Deltas : BeginFrame(d, MaxFramesReward)
    \/ PointerDownAttack
    \/ \E dir \in TouchDirs : PointerMove(dir)
    \/ PointerUp
    \/ AttackTimer
    \/ \E k \in Enemies : TintTimer(k)
    \/ \E k \in Enemies : DeathTween(k)
    \/ \E k \in Enemies : SwordHitsEnemy(k)
    \/ \E k \in Enemies : PlayerTouchesHeart(k)
    \/ \E justDown \in BOOLEAN, c \in ChestInRange :
          UpdateRunning(<<0, 0>>, justDown, {}, c, FALSE)

SpecReward == InitMelee /\ [][NextReward]_vars

\* spawn counts of the harm sessions: without and with a shooter
SpawnCountsHarm == {1, 2}

\* --- harm: enemy contact, projectiles, game over, restart; no sword
NextHarm ==
    \/ \E d \in Deltas : BeginFrame(d, MaxFramesHarm)
    \/ \E p \in Projs : ProjTimer(p)
    \/ \E k \in Enemies, off \in Offsets : PlayerTouchesEnemy(k, off)
    \/ \E p \in Projs, off \in Offsets : PlayerHitByProj(p, off)
    \/ \E p \in Projs : ProjHitsObstacle(p)
    \/ \E keys \in KeyDirs, near \in NearSets, r \in BOOLEAN :
          UpdateRunning(keys, FALSE, near, 0, r)
    \/ UpdateEnded
    \/ \E n \in SpawnCountsHarm, shots \in ShotDraws : UpdateRestart(n, shots)

SpecHarm == InitWith(SpawnCountsHarm) /\ [][NextHarm]_vars

\* --- timers: sword, tint and projectile timers against the destruction of
\* their objects; a goblin and a wizrobe, nothing harms the player
MaxFramesTimers == 6
SpawnCountsTimers == {2}

NextTimers ==
    \/ \E d \in Deltas : BeginFrame(d, MaxFramesTimers)
    \/ AttackTimer
    \/ \E k \in Enemies : TintTimer(k)
    \/ \E p \in Projs : ProjTimer(p)
    \/ \E k \in Enemies : DeathTween(k)
    \/ \E k \in Enemies : SwordHitsEnemy(k)
    \/ \E p \in Projs : ProjHitsObstacle(p)
    \/ \E justDown \in BOOLEAN, near \in NearSets :
          UpdateRunning(<<0, 0>>, justDown, near, 0, FALSE)

SpecTimers == InitWith(SpawnCountsTimers) /\ [][NextTimers]_vars

\* --- endgame: a full session of five enemies fought by a player who keeps
\* the attack key going, while the wizrobe in slot 2 touches and shoots the
\* player; the sword reaches the enemies in spawn order, the wizrobe last
\* (enemies of a type are interchangeable); a frame with a hitbox out is short,
\* the others are long
MaxFramesEnd == 15
SpawnCountsEnd == {NUM_ENEMIES}
EndShooter == 2

\* the enemy the next sword hitbox overlaps
EndTargets ==
    LET others == {k \in Enemies \ {EndShooter} : enemies[k].active /\ ~enemies[k].isDying}
    IN  IF others = {} THEN {EndShooter}
        ELSE {k \in others : \A j \in others : k <= j}

\* the heart the player may walk over: the one dropped by the first enemy slot
EndHearts == {k \in Enemies : \A j \in Enemies : k <= j}

\* the length of the next frame
EndDeltas == {d \in Deltas : sword.active <=> d <= ATTACK_DUR}

NextEnd ==
    \/ \E d \in EndDeltas : BeginFrame(d, MaxFramesEnd)
    \/ AttackTimer
    \/ \E k \in Enemies : TintTimer(k)
    \/ \E p \in Projs : ProjTimer(p)
    \/ \E k \in Enemies : DeathTween(k)
    \/ \E k \in EndTargets : SwordHitsEnemy(k)
    \/ \E k \in EndHearts : PlayerTouchesHeart(k)
    \/ PlayerTouchesEnemy(EndShooter, <<0, -1>>)
    \/ \E p \in Projs : PlayerHitByProj(p, <<0, -1>>)
    \/ \E near \in NearSets : UpdateRunning(<<0, 0>>, TRUE, near, 0, FALSE)
    \/ UpdateEnded

SpecEnd == InitWith(SpawnCountsEnd) /\ [][NextEnd]_vars

\* --- shooting in the scene whose enemy loop is delegated to the utilities
NextShoot ==
    \/ \E d \in Deltas : BeginFrame(d, MaxFramesHarm)
    \/ \E k \in Enemies, off \in Offsets : PlayerTouchesEnemy(k, off)
    \/ \E keys \in KeyDirs, near \in NearSets : UpdateDelegating(keys, near)

SpecShoot == InitWith(SpawnCountsHarm) /\ [][NextShoot]_vars

\* --- updateEnemy on one enemy, frame after frame
\* player position minus enemy position in a frame
AIOffsets ==
    {<<0, 0>>, <<127, 0>>, <<128, 0>>, <<0, -128>>, <<90, 90>>, <<91, 91>>,
     <<191, 0>>, <<192, 0>>, <<300, 0>>}
\* enemy positions: at the clamp of the patrol area, and mid-map
EnemySpots == {<<64, 64>>, <<800, 800>>}
\* the random draws of one updateEnemy call
PatrolDraws == {[dx |-> x, dy |-> 0, timer |-> tm] : x \in {0 - 80, 3}, tm \in {2000, 4000}}

\* the variables of the scene that the function-level specifications leave alone
Idle == <<inFrame, restarts, playerHP, facing, isAttacking, lastAttackTime,
          lastHitTime, enemiesKilled, gameOver, victory, touchDir, touchAttack,
          playerVel, enemies, hearts, sword, attackTimer, projs, chestOpened,
          triforcePieces, maxHP, ev>>

\* the scene with no enemy spawned, before its first frame
InitIdle ==
    /\ time = FirstFrameTime /\ inFrame = FALSE /\ frames = 0
    /\ LET s == create(init(constructed), 0, NoDraw)
       IN  /\ playerHP = s.playerHP /\ facing = s.facing
           /\ isAttacking = s.isAttacking
           /\ lastAttackTime = s.lastAttackTime /\ lastHitTime = s.lastHitTime
           /\ enemiesKilled = s.enemiesKilled /\ gameOver = s.gameOver
           /\ victory = s.victory /\ touchDir = s.touchDir
           /\ touchAttack = s.touchAttack /\ playerVel = s.playerVel
           /\ enemies = s.enemies /\ hearts = s.hearts /\ sword = s.sword
           /\ attackTimer = s.attackTimer /\ projs = s.projs
           /\ chestOpened = s.chestOpened
           /\ triforcePieces = s.triforcePieces /\ maxHP = s.maxHP
           /\ restarts = s.restarts
    /\ ev = Quiet("create")

\* a frame: the enemy loop calls updateEnemy with the frame time
AIFrame(d, off, draw) ==
    /\ frames < MaxFramesAI
    /\ time' = time + d /\ frames' = frames + 1
    /\ ai' = updateEnemyAI(ai, <<ai.pos[1] + off[1], ai.pos[2] + off[2]>>, time', draw)
    /\ UNCHANGED Idle /\ UNCHANGED <<gen, chest, spawn, call>>

\* _killEnemy marks the enemy as dying
AIKill ==
    /\ ~ai.isDying
    /\ ai' = [ai EXCEPT !.isDying = TRUE]
    /\ UNCHANGED <<time, frames>> /\ UNCHANGED Idle /\ UNCHANGED <<gen, chest, spawn, call>>

InitAI ==
    /\ InitIdle /\ gen = NoGen /\ chest = NoChest /\ spawn = NoSpawn /\ call = NoCall
    /\ \E type \in {"goblin", "wizrobe"}, pos \in EnemySpots, shot \in ShotStagger :
          ai = newAIEnemy(type, pos, shot)

NextAI ==
    \/ \E d \in Deltas, off \in AIOffsets, draw \in PatrolDraws : AIFrame(d, off, draw)
    \/ AIKill

SpecAI == InitAI /\ [][NextAI]_vars

\* --- patrolling: updateEnemy on one goblin, at the ends of the spawn area and
\* at the clamp of the patrol area, with its patrol timer about to expire
\* centre of tile c, where _createEnemies places an enemy
spawnCentre(c) == c * TILE_SIZE + TILE_SIZE \div 2
PatrolSpots ==
    EnemySpots \cup {<<spawnCentre(3), spawnCentre(3)>>,
                     <<spawnCentre(MAP_COLS - 4), spawnCentre(MAP_ROWS - 4)>>}
\* player position minus enemy position: chasing, patrolling
PatrolOffsets == {off \in AIOffsets : off[2] = 0 /\ off[1] \in {0, 300}}
\* the draws of one updateEnemy call: the ends of Between(-80, 80), and of
\* Between(2000, 4000)
PatrolRolls ==
    {[dx |-> x, dy |-> y, timer |-> tm] :
        x \in {0 - 80, 80}, y \in {0 - 80, 0, 80}, tm \in {2000, 4000}}
\* the patrol timer when the frames begin: as created, and one and two ticks
\* before a timer drawn as 2000 reaches 0
PatrolTimers == {0, PATROL_TICK, 2 * PATROL_TICK}

InitPatrol ==
    /\ InitIdle /\ gen = NoGen /\ chest = NoChest /\ spawn = NoSpawn /\ call = NoCall
    /\ \E pos \in PatrolSpots, t \in PatrolTimers :
          ai = [newAIEnemy("goblin", pos, 0) EXCEPT !.patrolTimer = t]

NextPatrol ==
    \/ \E d \in Deltas, off \in PatrolOffsets, draw \in PatrolRolls : AIFrame(d, off, draw)
    \/ AIKill

SpecPatrol == InitPatrol /\ [][NextPatrol]_vars

\* --- attacks under the engine's scheduling: the game loop keeps producing
\* frames, the clock fires every due timer and tween in a frame, and update
\* runs once in every frame; frames are counted up to MaxFramesLive and go on
\* past that only while an attack is in progress
MaxFramesLive == 2
SpawnCountsLive == {1}

LiveFrame(d) ==
    /\ ~inFrame /\ (frames < MaxFramesLive \/ isAttacking)
    /\ time' = time + d /\ inFrame' = TRUE
    /\ frames' = Min(frames + 1, MaxFramesLive)
    /\ ev' = Quiet("frame")
    /\ Commit(Scene)

\* the attack key is pressed only in a counted frame before the last
LiveUpdate ==
    \E keys \in KeyDirs, justDown \in {b \in BOOLEAN : b => frames < MaxFramesLive} :
        UpdateRunning(keys, justDown, {}, 0, FALSE)

NextLive ==
    \/ \E d \in Deltas : LiveFrame(d)
    \/ AttackTimer
    \/ \E k \in Enemies : TintTimer(k)
    \/ \E k \in Enemies : DeathTween(k)
    \/ \E k \in Enemies : SwordHitsEnemy(k)
    \/ \E k \in Enemies, off \in Offsets : PlayerTouchesEnemy(k, off)
    \/ LiveUpdate

\* the game loop: a frame begins, or its update runs
LiveLoop == (\E d \in Deltas : LiveFrame(d)) \/ LiveUpdate

\* the clock and the tween manager: a due timer or tween fires
LiveTimers ==
    \/ AttackTimer
    \/ \E k \in Enemies : TintTimer(k)
    \/ \E k \in Enemies : DeathTween(k)

SpecLive ==
    /\ InitWith(SpawnCountsLive) /\ [][NextLive]_vars
    /\ WF_vars(LiveLoop) /\ WF_vars(LiveTimers)

\* --- a dying enemy: the scene whose enemy loop is delegated to the utilities,
\* with a goblin and a wizrobe; ai holds the AI fields of the wizrobe, which
\* updateEnemy reads and writes in every update until the enemy is removed
MaxFramesInert == 3
SpawnCountsInert == {EndShooter}

\* player position minus wizrobe position in a frame: chasing, within shooting
\* range only, out of range
InertOffsets == {off \in AIOffsets : off[2] = 0 /\ off[1] \in {0, 191, 300}}
\* the random draws of one updateEnemy call
InertDraws == {draw \in PatrolDraws : draw.timer = 2000}

\* the wizrobe is within shooting range (1.5 x CHASE_RANGE) of the player at off
inShootRange(off) ==
    IF 4 * DistSq(<<0, 0>>, off) < 9 * CHASE_RANGE * CHASE_RANGE THEN {EndShooter} ELSE {}

InitInert ==
    /\ InitScene(SpawnCountsInert)
    /\ gen = NoGen /\ chest = NoChest /\ spawn = NoSpawn /\ call = NoCall
    /\ \E pos \in EnemySpots :
          ai = newAIEnemy(typeOf(EndShooter), pos, enemies[EndShooter].lastShotTime)

\* the sword overlap, seen also on the AI fields of the wizrobe
InertSwordHits(k) ==
    /\ inFrame /\ ~TimersDue
    /\ sword.active /\ enemies[k].active
    /\ CommitScene(swordOverlap(Scene, k, time))
    /\ ai' = [ai EXCEPT !.isDying = enemies'[EndShooter].isDying]
    /\ ev' = Ev("swordOverlap", enemies[k].isDying, FALSE)
    /\ UNCHANGED Engine /\ UNCHANGED <<gen, chest, spawn, call>>

\* update(time) with the wizrobe at -off from the player
InertUpdate(justDown, off, draw) ==
    /\ inFrame /\ ~TimersDue
    /\ ~(gameOver \/ victory)
    /\ CommitScene(delegating_update(Scene, time, <<0, 0>>, justDown, inShootRange(off)))
    /\ ai' = IF enemies[EndShooter].active
             THEN updateEnemyAI(ai, <<ai.pos[1] + off[1], ai.pos[2] + off[2]>>, time, draw)
             ELSE ai
    /\ ev' = Quiet("update")
    /\ inFrame' = FALSE
    /\ UNCHANGED <<time, frames>> /\ UNCHANGED <<gen, chest, spawn, call>>

NextInert ==
    \/ \E d \in Deltas : BeginFrame(d, MaxFramesInert)
    \/ AttackTimer
    \/ \E k \in Enemies : TintTimer(k)
    \/ \E k \in Enemies : DeathTween(k)
    \/ \E k \in Enemies : InertSwordHits(k)
    \/ \E k \in Enemies, off \in Offsets : PlayerTouchesEnemy(k, off)
    \/ \E justDown \in BOOLEAN, off \in InertOffsets, draw \in InertDraws :
          InertUpdate(justDown, off, draw)

SpecInert == InitInert /\ [][NextInert]_vars

\* --- generateMap(cols, rows), statement by statement
\* the Math.random() patterns of a call, in percent
Fills == {<<79>>, <<80>>, <<91, 92>>, <<0, 80, 99>>}

InitGen ==
    /\ InitIdle /\ ai = NoAI /\ chest = NoChest /\ spawn = NoSpawn /\ call = NoCall
    /\ \E cols \in 1..MaxDim, rows \in 1..MaxDim, fill \in Fills :
          gen = startGen(cols, rows, fill)

\* the fill loops of generateMap
GenFill ==
    /\ gen.pc = "fill"
    /\ gen' = genStep(gen)
    /\ UNCHANGED <<time, frames, ai, chest, spawn, call>> /\ UNCHANGED Idle

\* an iteration, or the exit, of the loop that carves rows midR and midR - 1
GenCarveRows ==
    /\ gen.pc = "carveRows"
    /\ gen' = genStep(gen)
    /\ UNCHANGED <<time, frames, ai, chest, spawn, call>> /\ UNCHANGED Idle

\* an iteration of the loop that carves columns midC and midC + 1, or its
\* exit and the return
GenCarveCols ==
    /\ gen.pc = "carveCols"
    /\ gen' = genStep(gen)
    /\ UNCHANGED <<time, frames, ai, chest, spawn, call>> /\ UNCHANGED Idle

NextGen == GenFill \/ GenCarveRows \/ GenCarveCols

SpecGen == InitGen /\ [][NextGen]_vars

\* --- generateChestPositions(map, count, cols, rows, rng), attempt by attempt
\* the maps placed on: generateMap(cols, rows) with a fill pattern
ChestMaps ==
    {[cols |-> 6, rows |-> 20, fill |-> <<79>>],
     [cols |-> 6, rows |-> 20, fill |-> <<80>>],
     [cols |-> 2, rows |-> 12, fill |-> <<79>>],
     [cols |-> 2, rows |-> 1, fill |-> <<79>>]}
\* the counts requested
ChestCounts == {0, 1, NUM_CHESTS}
\* the values of rng(), in percent
RngDraws == {0, 25, 50, 75}

InitChest ==
    /\ InitIdle /\ ai = NoAI /\ gen = NoGen /\ spawn = NoSpawn /\ call = NoCall
    /\ \E m \in ChestMaps, count \in ChestCounts :
          chest = startChest(generateMap(m.cols, m.rows, m.fill).map, count, m.cols, m.rows)

\* one iteration of the sampling loop
ChestAttempt(u, v) ==
    /\ chestLooping(chest)
    /\ chest' = chestAttempt(chest, u, v)
    /\ UNCHANGED <<time, frames, ai, gen, spawn, call>> /\ UNCHANGED Idle

\* the loop test fails: the positions are returned
ChestReturn ==
    /\ chest.pc = "loop" /\ ~chestLooping(chest)
    /\ chest' = chestReturn(chest)
    /\ UNCHANGED <<time, frames, ai, gen, spawn, call>> /\ UNCHANGED Idle

NextChest ==
    \/ \E u \in RngDraws, v \in RngDraws : ChestAttempt(u, v)
    \/ ChestReturn

SpecChest == InitChest /\ [][NextChest]_vars

\* --- the enemy spawn loops, attempt by attempt
\* the values of Math.random(), in 1/1000
RngMille == {0, 500, 640, 999}
\* the runs: the scene's loop on the overworld; the utilities' loop with the
\* scene's reference point and with the arguments of its test
SpawnRuns ==
    {startSpawn("scene", "grass", NUM_ENEMIES, sceneSpawnRef),
     startSpawn("scene", "trees", NUM_ENEMIES, sceneSpawnRef),
     startSpawn("utils", "grass", 0, sceneSpawnRef),
     startSpawn("utils", "grass", 3, sceneSpawnRef),
     startSpawn("utils", "grass", NUM_ENEMIES + 1, sceneSpawnRef),
     startSpawn("utils", "small", 3, <<1000, 1000>>)}

InitSpawn ==
    /\ InitIdle /\ ai = NoAI /\ gen = NoGen /\ chest = NoChest /\ call = NoCall
    /\ spawn \in SpawnRuns

\* one iteration of the scene's spawn loop
SceneSpawnAttempt(u, v) ==
    /\ spawn.impl = "scene" /\ spawnLooping(spawn)
    /\ spawn' = sceneSpawnAttempt(spawn, u, v)
    /\ UNCHANGED <<time, frames, ai, gen, chest, call>> /\ UNCHANGED Idle

\* one iteration of the utilities' spawn loop
UtilsSpawnAttempt(u, v) ==
    /\ spawn.impl = "utils" /\ spawnLooping(spawn)
    /\ spawn' = utilsSpawnAttempt(spawn, u, v)
    /\ UNCHANGED <<time, frames, ai, gen, chest, call>> /\ UNCHANGED Idle

\* the loop test fails
SpawnReturn ==
    /\ spawn.pc = "loop" /\ ~spawnLooping(spawn)
    /\ spawn' = spawnReturn(spawn)
    /\ UNCHANGED <<time, frames, ai, gen, chest, call>> /\ UNCHANGED Idle

NextSpawn ==
    \/ \E u \in RngMille, v \in RngMille : SceneSpawnAttempt(u, v)
    \/ \E u \in RngMille, v \in RngMille : UtilsSpawnAttempt(u, v)
    \/ SpawnReturn

SpecSpawn == InitSpawn /\ [][NextSpawn]_vars

\* --- the pure helpers, call by call
\* velocity components and coordinates (in steps of 100 px) of the calls
MaxVel == 2
MaxCoord == 2
Vels == (0 - MaxVel)..MaxVel
KnockCoords == {100 * i : i \in 0..MaxCoord}
KnockForces == {1, KNOCKBACK_FORCE}

\* source and player on a common horizontal or vertical line
KnockArgs ==
    {<<src, pl, force>> \in
        (KnockCoords \X KnockCoords) \X (KnockCoords \X KnockCoords) \X KnockForces :
        src[1] = pl[1] \/ src[2] = pl[2]}

InitUtil ==
    /\ InitIdle /\ ai = NoAI /\ gen = NoGen /\ chest = NoChest /\ spawn = NoSpawn
    /\ \/ \E fn \in {"getFacingFromVelocity", "_handlePlayerMovement"} :
             call \in {startCall(fn, a) : a \in Vels \X Vels \X Facings}
       \/ call \in {startCall("calcKnockbackVelocity", a) : a \in KnockArgs}

UtilFacing ==
    /\ call.pc = "called" /\ call.fn = "getFacingFromVelocity"
    /\ call' = [call EXCEPT !.pc = "returned",
                   !.ret = <<getFacingFromVelocity(call.args[1], call.args[2], call.args[3])>>]
    /\ UNCHANGED <<time, frames, ai, gen, chest, spawn>> /\ UNCHANGED Idle

SceneFacing ==
    /\ call.pc = "called" /\ call.fn = "_handlePlayerMovement"
    /\ call' = [call EXCEPT !.pc = "returned",
                   !.ret = <<sceneFacing(Scene, call.args[1], call.args[2], call.args[3])>>]
    /\ UNCHANGED <<time, frames, ai, gen, chest, spawn>> /\ UNCHANGED Idle

UtilKnockback ==
    /\ call.pc = "called" /\ call.fn = "calcKnockbackVelocity"
    /\ call' = [call EXCEPT !.pc = "returned",
                   !.ret = knockbackXY(call.args[1], call.args[2], call.args[3])]
    /\ UNCHANGED <<time, frames, ai, gen, chest, spawn>> /\ UNCHANGED Idle

NextUtil == UtilFacing \/ SceneFacing \/ UtilKnockback

SpecUtil == InitUtil /\ [][NextUtil]_vars

\* ---------------------------------------------------------------- properties
\* C1: over the whole life of one sword hitbox (one swing) the enemy hit-point
\* decrements it causes number at most one; the hitbox is gone after its first
\* hit, whatever else it overlaps in that frame or later.
C1_OneHitPerSwing ==
    /\ sword.hits <= 1
    /\ sword.hits = 1 => ~sword.active

\* a swing has hit once and is gone while another live enemy is still around
C1_Witness ==
    /\ ev.op = "swordOverlap" /\ ~ev.dying
    /\ sword.hits = 1 /\ ~sword.active
    /\ \E k \in Enemies : enemies[k].active /\ ~enemies[k].isDying

\* C2: an enemy is dying exactly when it has absorbed as many melee activations
\* as its initial hit points (3 for a lynel, 1 for a goblin or wizrobe), never
\* before; a further activation of a dying enemy changes nothing.
C2_KillThreshold ==
    \A k \in Enemies : enemies[k].spawned =>
        /\ enemies[k].acts <= ENEMY_CONFIGS[typeOf(k)].hp
        /\ enemies[k].isDying <=> enemies[k].acts = ENEMY_CONFIGS[typeOf(k)].hp
        /\ enemies[k].hp = ENEMY_CONFIGS[typeOf(k)].hp - enemies[k].acts
        /\ enemies[k].isDying => damageEnemy(Scene, k, time) = Scene

\* the lynel has just been killed by its third activation
C2_Witness ==
    /\ ev.op = "swordOverlap"
    /\ typeOf(3) = "lynel" /\ enemies[3].isDying /\ enemies[3].acts = 3
    /\ sword.hits = 1 /\ enemies[3].dieAt = time + DEATH_TWEEN_DUR

\* C6: after an update of a session that is not lost, victory is set as soon as
\* every spawned enemy has been killed, and victory is never set while a
\* spawned enemy is alive.
C6_VictoryWhenCleared ==
    /\ (ev.op = "update" /\ ~gameOver
            /\ \A k \in Enemies : enemies[k].spawned => enemies[k].isDying)
        => victory
    /\ victory => \A k \in Enemies : enemies[k].spawned => enemies[k].isDying

\* C8: an enemy yields a heart exactly when it has been killed and its death
\* tween has completed, which is also when it leaves the world; the tween
\* completes DEATH_TWEEN_DUR after the kill; no enemy yields two hearts and an
\* enemy that was not killed yields none.
C8_HeartPerKill ==
    \A k \in Enemies :
        /\ enemies[k].drops <= 1
        /\ hearts[k] <= enemies[k].drops
        /\ enemies[k].drops = 1 <=> (enemies[k].isDying /\ ~enemies[k].active)
        /\ (enemies[k].isDying /\ enemies[k].active) =>
              /\ enemies[k].dieAt # NoTimer
              /\ enemies[k].dieAt <= time + DEATH_TWEEN_DUR
              /\ ~inFrame => time < enemies[k].dieAt

\* a death tween has just completed: the heart lies there, the enemy is gone
C8_Witness ==
    /\ ev.op = "tween"
    /\ \E k \in Enemies : /\ enemies[k].drops = 1 /\ hearts[k] = 1
                          /\ enemies[k].isDying /\ ~enemies[k].active
    /\ \E k \in Enemies : enemies[k].active /\ ~enemies[k].isDying

\* the step is a call of one of the two damage callbacks
DamageCall == ev'.op \in {"onPlayerHit", "onPlayerHitByProj"}

\* the step is a contact at offset off with a non-dying enemy or a projectile
Contact(off) ==
    \/ \E k \in Enemies : ~enemies[k].isDying /\ PlayerTouchesEnemy(k, off)
    \/ \E p \in Projs : PlayerHitByProj(p, off)

\* C3: a damage callback that runs less than IFRAMES_DUR after the last hit
\* changes neither the hit points, nor lastHitTime, nor the player's velocity;
\* so of two contacts in one frame only the first one counts.
C3_WindowIdempotent ==
    [][(DamageCall /\ Shielded) =>
          /\ playerHP' = playerHP
          /\ lastHitTime' = lastHitTime
          /\ playerVel' = playerVel]_vars

\* the player was hit in this frame, and a second enemy contact reported in the
\* same frame was ignored: the hit points went down once
C3_Witness ==
    /\ ev.op = "onPlayerHit" /\ ev.shielded /\ ~ev.dying
    /\ lastHitTime = time
    /\ playerHP = MAX_HP - ENEMY_DMG

\* C4 (amended): a contact outside the invincibility window starts a window and
\* takes ENEMY_DMG hit points, stopping at 0; it leaves the player with the
\* knockback velocity away from the source unless the hit points are 0
\* afterwards, when the game is over and the velocity is zero.
C4_DamageOutsideWindow ==
    [][\A off \in Offsets : (Contact(off) /\ ~Shielded) =>
          /\ lastHitTime' = time
          /\ playerHP' = Max(playerHP - ENEMY_DMG, 0)
          /\ playerVel' = IF playerHP' > 0
                          THEN calcKnockbackVelocity(off, KNOCKBACK_FORCE)
                          ELSE ZeroVel]_vars

\* C4 as stated: every contact outside the window takes exactly ENEMY_DMG hit
\* points, leaves the knockback velocity and starts a window.
C4_AsStated ==
    [][\A off \in Offsets : (Contact(off) /\ ~Shielded) =>
          /\ lastHitTime' = time
          /\ playerHP' = playerHP - ENEMY_DMG
          /\ playerVel' = calcKnockbackVelocity(off, KNOCKBACK_FORCE)]_vars

\* the first hit of a session: 96 -> 72, knocked back, window started
C4_Witness ==
    /\ ev.op = "onPlayerHit" /\ ~ev.shielded /\ ~ev.dying
    /\ playerHP = MAX_HP - ENEMY_DMG
    /\ lastHitTime = time
    /\ playerVel.speed = KNOCKBACK_FORCE

\* C5: hit points are never negative; gameOver is set only by a damage call
\* that brings positive hit points to 0, every damage call that leaves the hit
\* points at 0 leaves gameOver set, and a damage call that leaves them positive
\* does not change gameOver.
C5_LostAtZero ==
    /\ [](playerHP >= 0)
    /\ [][(~gameOver /\ gameOver') =>
              (DamageCall /\ playerHP > 0 /\ playerHP' = 0)]_vars
    /\ [][(DamageCall /\ playerHP' = 0) => gameOver']_vars
    /\ [][(DamageCall /\ playerHP' > 0) => gameOver' = gameOver]_vars

\* the fourth hit has just ended the game
C5_Witness ==
    /\ ev.op \in {"onPlayerHit", "onPlayerHitByProj"} /\ ~ev.shielded
    /\ gameOver /\ playerHP = 0 /\ lastHitTime = time

\* the values init() leaves in the eight session fields
InitValues(s) ==
    /\ s.playerHP = MAX_HP /\ s.facing = "down" /\ s.isAttacking = FALSE
    /\ s.lastAttackTime = 0 /\ s.lastHitTime = 0 /\ s.enemiesKilled = 0
    /\ s.gameOver = FALSE /\ s.victory = FALSE

\* C9: at the start of the first session and right after every restart the
\* eight session fields have their initial values, and init() applied to any
\* reachable scene produces them.
C9_InitResets ==
    /\ ev.op \in {"create", "restart"} => InitValues(Scene)
    /\ InitValues(init(Scene))

\* a lost session has just been restarted
C9_Witness ==
    /\ ev.op = "restart" /\ restarts = 1
    /\ playerHP = MAX_HP /\ lastHitTime = 0 /\ ~gameOver

C7_HeartCappedAtEffectiveMax ==
    /\ [](playerHP <= maxHP)
    /\ [][\A k \in Enemies : PlayerTouchesHeart(k) =>
              /\ playerHP' = Min(maxHP, playerHP + HEART_HP)
              /\ hearts'[k] = hearts[k] - 1]_vars

\* the step creates a sword hitbox: an attack starts
AttackStart == ~sword.active /\ sword'.active

\* C11: update starts an attack (hitbox created, isAttacking set, lastAttackTime
\* = frame time) in exactly the frames where isAttackReady holds of the key or
\* tap, of isAttacking, of the frame time, of lastAttackTime and of ATTACK_CD,
\* the cooldown counting strictly.
C11_AttackIffReady ==
    [][\A justDown \in BOOLEAN, c \in ChestInRange :
          UpdateRunning(<<0, 0>>, justDown, {}, c, FALSE) =>
              ((AttackStart /\ isAttacking' /\ lastAttackTime' = time)
                  <=> isAttackReady(justDown \/ touchAttack, isAttacking, time,
                                    lastAttackTime, ATTACK_CD))]_vars

\* an update exactly ATTACK_CD after the last attack start, with the attack
\* over and a tap pending, has started no attack
C11_Witness ==
    /\ ev.op = "update"
    /\ lastAttackTime > 0 /\ time - lastAttackTime = ATTACK_CD
    /\ touchAttack /\ ~isAttacking /\ ~sword.active

\* C12: every attack start is more than ATTACK_CD after the attack start before
\* it (lastAttackTime, which changes only at attack starts), whatever keys and
\* taps arrive.
C12_AttackCooldown ==
    /\ [][AttackStart =>
              (time - lastAttackTime > ATTACK_CD /\ lastAttackTime' = time)]_vars
    /\ [][lastAttackTime' # lastAttackTime => AttackStart]_vars

\* a second attack of the session has just started
C12_Witness ==
    /\ ev.op = "update" /\ sword.active /\ lastAttackTime = time
    /\ time >= FirstFrameTime + 2 * ATTACK_CD
    /\ frames >= 3

\* C13: in every frame in which a non-dying shooter is within 1.5 x
\* CHASE_RANGE of the player with more than its cooldown elapsed since its last
\* shot, a projectile is spawned and the enemy's lastShotTime becomes the frame
\* time.
C13_ShotWhenDue ==
    [][\A keys \in KeyDirs, near \in NearSets :
          UpdateDelegating(keys, near) =>
              \A k \in Enemies :
                  shotDue(Scene, k, time, near) =>
                      /\ enemies'[k].lastShotTime = time
                      /\ \E p \in Projs : projs[p].st = "free" /\ projs'[p].st = "live"]_vars

\* C14: a projectile is never active in the physics step or in update() of a
\* frame whose time is PROJ_LIFETIME or more after its spawn (the lifetime
\* timer has destroyed it in the timer phase of that frame if nothing did
\* before), and no projectile is destroyed more than once.
C14_ProjectileLifetime ==
    /\ \A p \in Projs :
          (projs[p].st = "live" /\ time - projs[p].spawnedAt >= PROJ_LIFETIME)
              => (inFrame /\ ev.op \in {"frame", "timer"})
    /\ \A p \in Projs : projs[p].destroys <= 1

\* the lifetime timer of a projectile that hit the player or an obstacle
\* earlier has fired, and a projectile has lived to its timeout
C14_Witness ==
    /\ ev.op = "timer"
    /\ \E p \in Projs : projs[p].st = "free" /\ projs[p].destroys = 1
    /\ lastHitTime > 0

\* C15: after updateEnemy has run on a non-dying enemy, isChasing is TRUE
\* exactly when the Euclidean distance to the player in that frame is strictly
\* below CHASE_RANGE (compared as squares), whatever isChasing was before.
C15_ChaseIffInRange ==
    [][\A d \in Deltas, off \in AIOffsets, draw \in PatrolDraws :
          (AIFrame(d, off, draw) /\ ~ai.isDying) =>
              (ai'.isChasing <=>
                   off[1] * off[1] + off[2] * off[2] < CHASE_RANGE * CHASE_RANGE)]_vars

\* an enemy that chased in its first frame (patrolTimer untouched) has been
\* updated at a distance of CHASE_RANGE or more in its second and patrols
C15_Witness ==
    /\ frames = 2 /\ ~ai.isDying
    /\ ~ai.isChasing /\ ai.move = "patrol" /\ ai.patrolTimer >= 2000

\* the cell (r, c) of the returned grid, rows and columns counted from 0
Tile(r, c) == gen.map[r + 1][c + 1]

\* (r, c) is a cell of the requested grid that is not on its border
Interior(r, c) ==
    /\ r > 0 /\ r < gen.rows - 1
    /\ c > 0 /\ c < gen.cols - 1

\* C16: for any requested cols x rows generateMap returns without error a grid
\* of exactly rows rows, each of exactly cols cells, every cell 0, 1 or 2.
C16_GridShape ==
    /\ gen.pc # "error"
    /\ gen.pc = "done" =>
          /\ Len(gen.map) = gen.rows
          /\ \A r \in 1..Len(gen.map) :
                /\ Len(gen.map[r]) = gen.cols
                /\ \A c \in 1..Len(gen.map[r]) : gen.map[r][c] \in {0, 1, 2}

\* C17: in the returned grid every cell of the first and last row and of the
\* first and last column is a tree (1), also after the carving.
C17_BorderWall ==
    gen.pc = "done" =>
        \A r \in 0..(Len(gen.map) - 1) :
            \A c \in 0..(Len(gen.map[r + 1]) - 1) :
                (r = 0 \/ r = gen.rows - 1 \/ c = 0 \/ c = gen.cols - 1) => Tile(r, c) = 1

\* (r, c) is in the spawn zone around the centre
InSpawnZone(r, c) ==
    /\ Abs(c - (gen.cols \div 2)) < SPAWN_CLEAR
    /\ Abs(r - (gen.rows \div 2)) < SPAWN_CLEAR

\* (r, c) is on one of the two carved paths
OnPath(r, c) ==
    \/ r = gen.rows \div 2 \/ r = (gen.rows \div 2) - 1
    \/ c = gen.cols \div 2 \/ c = (gen.cols \div 2) + 1

\* C18 as stated: in the returned grid every cell of the spawn zone is 0, and
\* every interior cell of the two carved paths is 0.
C18_AsStated ==
    gen.pc = "done" =>
        \A r \in 0..(Len(gen.map) - 1) :
            \A c \in 0..(Len(gen.map[r + 1]) - 1) :
                (InSpawnZone(r, c) \/ (OnPath(r, c) /\ Interior(r, c))) => Tile(r, c) = 0

\* C18: in the returned grid every cell of the spawn zone that is not on the
\* border, and every interior cell of the two carved paths, is 0, whatever the
\* random fill produced.
C18_ClearInside ==
    gen.pc = "done" =>
        \A r \in 0..(Len(gen.map) - 1) :
            \A c \in 0..(Len(gen.map[r + 1]) - 1) :
                ((InSpawnZone(r, c) \/ OnPath(r, c)) /\ Interior(r, c)) => Tile(r, c) = 0

\* a grid has been returned whose spawn zone lies inside the border, whose
\* random fill put a tree or rock in the interior, and whose spawn zone has a
\* cell off the paths
C18_Witness ==
    /\ gen.pc = "done" /\ gen.cols >= 7 /\ gen.rows >= 7
    /\ \E r \in 1..(gen.rows - 2), c \in 1..(gen.cols - 2) : Tile(r, c) # 0
    /\ \E r \in 1..(gen.rows - 2), c \in 1..(gen.cols - 2) :
          InSpawnZone(r, c) /\ ~OnPath(r, c) /\ Tile(r, c) = 0

\* position w is the centre of a grass tile of the map that is not on the
\* border and not in the exclusion zone around the centre
GoodChestTile(w) ==
    \E r \in 1..(chest.rows - 2), c \in 1..(chest.cols - 2) :
        /\ w = tileCentre(r, c)
        /\ hasRow(chest.map, r) /\ cellAt(chest.map, r, c) = 0
        /\ ~(Abs(c - (chest.cols \div 2)) < CHEST_CLEAR
             /\ Abs(r - (chest.rows \div 2)) < CHEST_CLEAR)

\* C19: generateChestPositions returns no two chests closer than 6 x TILE_SIZE,
\* no chest inside the spawn exclusion zone, and only centres of grass tiles
\* that are not border tiles, for every map and every sequence of draws.
C19_ChestPlacement ==
    chest.pc = "done" =>
        /\ \A i \in 1..Len(chest.positions) : GoodChestTile(chest.positions[i])
        /\ \A i \in 1..Len(chest.positions), j \in 1..Len(chest.positions) :
              i # j => DistSq(chest.positions[i], chest.positions[j])
                           >= (MIN_SEP_TILES * TILE_SIZE) * (MIN_SEP_TILES * TILE_SIZE)

\* C20: generateChestPositions never fails, makes at most 1000 sampling
\* attempts and returns at most count positions (fewer when no further valid
\* tile is found within the cap).
C20_BoundedSampling ==
    /\ chest.pc # "error"
    /\ chest.attempts <= MAX_ATTEMPTS
    /\ Len(chest.positions) <= chest.count

\* C21: every enemy of the scene is spawned at the centre of a walkable tile
\* and at least 200 px away from the player's start position.
C21_SpawnFarFromPlayer ==
    (spawn.impl = "scene" /\ spawn.spawned > 0) =>
        /\ \E r \in 0..(MAP_ROWS - 1), c \in 0..(MAP_COLS - 1) :
              spawn.last = tileCentre(r, c) /\ cellAt(spawnMaps[spawn.mapId], r, c) = 0
        /\ DistSq(spawn.last, playerStart) >= SPAWN_MIN_DIST * SPAWN_MIN_DIST

\* C22: the k-th enemy spawned has the k-th type of goblin, wizrobe, lynel,
\* goblin, wizrobe, however many attempts were rejected before it; so three or
\* more enemies include a wizrobe and a lynel.
C22_TypeCycle ==
    /\ Len(spawn.types) = spawn.spawned
    /\ \A k \in 1..Len(spawn.types) : spawn.types[k] = typeCycle[k]
    /\ Len(spawn.types) >= 3 =>
          /\ \E k \in 1..Len(spawn.types) : spawn.types[k] = "lynel"
          /\ \E k \in 1..Len(spawn.types) : spawn.types[k] = "wizrobe"

\* a loop has ended with three or more enemies after rejected attempts
C22_Witness ==
    /\ spawn.pc = "done" /\ spawn.spawned >= 3
    /\ spawn.attempts > spawn.spawned + 2

\* C23: for every requested number n the utilities' createEnemies raises no
\* error, makes at most 500 attempts and returns at most n enemies.
C23_SpawnBounded ==
    spawn.impl = "utils" =>
        /\ spawn.pc # "error"
        /\ spawn.attempts <= SPAWN_ATTEMPTS
        /\ spawn.spawned <= spawn.numEnemies

\* tile (r, c) is a candidate the loop of _createEnemies can draw and accepts
sceneAccepts(map, r, c) ==
    /\ c >= SPAWN_MARGIN /\ c <= MAP_COLS - 4
    /\ r >= SPAWN_MARGIN /\ r <= MAP_ROWS - 4
    /\ cellAt(map, r, c) = 0
    /\ DistSq(tileCentre(r, c), sceneSpawnRef) >= SPAWN_MIN_DIST * SPAWN_MIN_DIST

\* C30: on the same map and with the same reference point, createEnemies of
\* the utilities spawns only on tiles that the loop of _createEnemies accepts.
C30_SameCandidates ==
    (spawn.impl = "utils" /\ spawn.mapId # "small" /\ spawn.ref = sceneSpawnRef
        /\ spawn.spawned > 0) =>
        \E r \in 0..(MAP_ROWS - 1), c \in 0..(MAP_COLS - 1) :
            spawn.last = tileCentre(r, c) /\ sceneAccepts(spawnMaps[spawn.mapId], r, c)


\* the step is the update() of a running frame with chest c in range
ChestFrame(c) == \E justDown \in BOOLEAN : UpdateRunning(<<0, 0>>, justDown, {}, c, FALSE)

\* C24: a chest is opened only by the update of a frame in which it is
\* unopened and within interaction range of the player; an opened chest stays
\* opened, its content is applied exactly once (one piece per opening), and
\* the piece counter always equals the number of opened chests, at most
\* NUM_CHESTS.
C24_ChestOpenedOnce ==
    /\ [](/\ chestOpened \subseteq Chests
          /\ triforcePieces = Cardinality(chestOpened)
          /\ triforcePieces <= NUM_CHESTS)
    /\ [][/\ chestOpened \subseteq chestOpened'
          /\ (chestOpened' # chestOpened \/ triforcePieces' # triforcePieces) =>
                \E c \in ChestInRange \ {0} :
                    /\ ChestFrame(c)
                    /\ c \notin chestOpened
                    /\ chestOpened' = chestOpened \cup {c}
                    /\ triforcePieces' = triforcePieces + 1]_vars

\* every chest is opened and frames went by after the last opening
C24_Witness ==
    /\ chestOpened = Chests /\ triforcePieces = NUM_CHESTS
    /\ frames > NUM_CHESTS /\ ev.op = "update" /\ ~inFrame

\* C25: the step in which the piece counter reaches NUM_CHESTS raises the
\* maximum HP to TRIFORCE_BONUS_HP and sets the hit points to it; the maximum
\* is MAX_HP while fewer pieces are collected and never decreases.
C25_TriforceBonus ==
    /\ [](maxHP = IF triforcePieces >= NUM_CHESTS THEN TRIFORCE_BONUS_HP ELSE MAX_HP)
    /\ [][/\ maxHP' >= maxHP
          /\ (triforcePieces < NUM_CHESTS /\ triforcePieces' >= NUM_CHESTS) =>
                (maxHP' = TRIFORCE_BONUS_HP /\ playerHP' = TRIFORCE_BONUS_HP)]_vars

\* the last piece was collected in this frame
C25_Witness ==
    /\ triforcePieces = NUM_CHESTS /\ maxHP = TRIFORCE_BONUS_HP
    /\ playerHP = TRIFORCE_BONUS_HP /\ ev.op = "update" /\ frames = NUM_CHESTS


\* the direction of the axis of larger magnitude of a nonzero (vx, vy), a tie
\* going to the horizontal axis
largerAxis(vx, vy) ==
    IF Abs(vx) >= Abs(vy)
    THEN (IF vx > 0 THEN "right" ELSE "left")
    ELSE (IF vy > 0 THEN "down" ELSE "up")

\* C26: getFacingFromVelocity(vx, vy, current) returns, for a nonzero (vx, vy),
\* the direction of the larger-magnitude axis (right/left by the sign of vx
\* when |vx| >= |vy|, down/up by the sign of vy otherwise) and for (0, 0) the
\* direction current; the facing after the scene's movement handler follows
\* the same rule.
C26_FacingSnap ==
    (call.pc = "returned" /\ call.fn \in {"getFacingFromVelocity", "_handlePlayerMovement"}) =>
        LET vx == call.args[1]
            vy == call.args[2]
        IN  /\ (vx = 0 /\ vy = 0) => call.ret = <<call.args[3]>>
            /\ (vx # 0 \/ vy # 0) => call.ret = <<largerAxis(vx, vy)>>
            /\ (Abs(vx) = Abs(vy) /\ vx # 0) => call.ret[1] \in {"left", "right"}
            /\ Abs(vy) > Abs(vx) => call.ret[1] = (IF vy > 0 THEN "down" ELSE "up")

\* a tie of a leftward and downward velocity has been snapped to left while
\* the player faced up
C26_Witness ==
    /\ call.pc = "returned" /\ call.fn = "getFacingFromVelocity"
    /\ call.args = <<0 - 1, 1, "up">> /\ call.ret = <<"left">>


\* the integer n as a double
exactly(n) == <<n, 0>>

\* a double that is not 0 and smaller in magnitude than 10^-12
tiny(x) == x[1] = 0 /\ x[2] # 0 /\ Abs(x[2]) < 100000000

\* C29 as stated: for source and player on a common horizontal or vertical
\* line calcKnockbackVelocity returns exactly (+-force, 0) or (0, +-force),
\* directed from the source to the player.
C29_AsStated ==
    (call.pc = "returned" /\ call.fn = "calcKnockbackVelocity"
        /\ call.args[1] # call.args[2]) =>
        LET dx == call.args[2][1] - call.args[1][1]
            dy == call.args[2][2] - call.args[1][2]
            force == call.args[3]
        IN  call.ret = <<exactly(IF dx > 0 THEN force ELSE IF dx < 0 THEN 0 - force ELSE 0),
                         exactly(IF dy > 0 THEN force ELSE IF dy < 0 THEN 0 - force ELSE 0)>>

\* C29: calcKnockbackVelocity returns exactly (force, 0) when the player is
\* exactly to the right of the source or at the source, so (300, 0) for source
\* (0, 0), player (100, 0) and force 300; when the player is exactly to the
\* left of, below or above the source, the component along their common line
\* is exactly +-force, directed from the source to the player, and the other
\* component is a tiny number that is not 0.
C29_KnockbackAxis ==
    (call.pc = "returned" /\ call.fn = "calcKnockbackVelocity") =>
        LET dx == call.args[2][1] - call.args[1][1]
            dy == call.args[2][2] - call.args[1][2]
            force == call.args[3]
            vx == call.ret[1]
            vy == call.ret[2]
        IN  /\ (dy = 0 /\ dx >= 0) => (vx = exactly(force) /\ vy = exactly(0))
            /\ (dy = 0 /\ dx < 0) => (vx = exactly(0 - force) /\ tiny(vy))
            /\ dy > 0 => (vy = exactly(force) /\ tiny(vx))
            /\ dy < 0 => (vy = exactly(0 - force) /\ tiny(vx))
            /\ call.args = <<<<0, 0>>, <<100, 0>>, 300>> =>
                   call.ret = <<exactly(300), exactly(0)>>

\* the knockback of a player exactly below the source has been computed
C29_Witness ==
    /\ call.pc = "returned" /\ call.fn = "calcKnockbackVelocity"
    /\ call.args = <<<<0, 0>>, <<0, 100>>, KNOCKBACK_FORCE>>
    /\ call.ret[2] = exactly(KNOCKBACK_FORCE) /\ call.ret[1] # exactly(0)


\* C27: every enemy is flagged dying if and only if its hit points are 0, the
\* hit points are never negative, an enemy becomes dying only in a sword
\* overlap that takes its last hit point, and a dying enemy has absorbed as
\* many melee activations as its initial hit points (1 or 3).
C27_DyingIffNoHP ==
    /\ [](\A k \in Enemies : enemies[k].spawned =>
              /\ enemies[k].hp >= 0
              /\ enemies[k].isDying <=> enemies[k].hp = 0
              /\ ENEMY_CONFIGS[typeOf(k)].hp \in {1, 3}
              /\ enemies[k].isDying => enemies[k].acts = ENEMY_CONFIGS[typeOf(k)].hp)
    /\ [][\A k \in Enemies :
              (enemies[k].spawned /\ ~enemies[k].isDying /\ enemies'[k].isDying) =>
                  /\ SwordHitsEnemy(k)
                  /\ enemies[k].hp = 1 /\ enemies'[k].hp = 0]_vars

\* a goblin has died of its first activation while the lynel, hit twice, is
\* alive with one hit point left
C27_Witness ==
    /\ enemies[1].spawned /\ enemies[1].isDying /\ enemies[1].acts = 1
    /\ enemies[1].hp = 0 /\ ev.op = "swordOverlap"
    /\ enemies[3].spawned /\ ~enemies[3].isDying /\ enemies[3].acts = 2
    /\ enemies[3].hp = 1


\* C28: the timer callbacks test their object before acting on it: a sword
\* hitbox and a projectile are destroyed at most once, and a timer that fires
\* after its hitbox, projectile or enemy was destroyed leaves that object as
\* it is.
C28_TimersCheckActive ==
    /\ [](/\ sword.destroys <= 1
          /\ \A p \in Projs : projs[p].destroys <= 1)
    /\ [][/\ (AttackTimer /\ ~sword.active) => sword' = sword
          /\ \A p \in Projs : (ProjTimer(p) /\ projs[p].st = "dead") =>
                 projs'[p].destroys = projs[p].destroys
          /\ \A k \in Enemies : (TintTimer(k) /\ ~enemies[k].active) =>
                 /\ ev'.op # "clearTint"
                 /\ enemies'[k] = [enemies[k] EXCEPT !.tintAt = NoTimer]]_vars

\* the tint timer of a destroyed enemy has fired, after the attack timer of a
\* hitbox that was gone
C28_Witness ==
    /\ ev.op = "tintSkipped" /\ sword.destroys = 1 /\ attackTimer = NoTimer
    /\ \E k \in Enemies : /\ enemies[k].spawned /\ ~enemies[k].active
                          /\ enemies[k].drops = 1 /\ enemies[k].tintAt = NoTimer


\* C31: gameOver and victory are never both true in a session.
C31_OneEnding == ~(gameOver /\ victory)

\* C32: while gameOver is true, playerHP is 0.
C32_DeadStaysDead == gameOver => playerHP = 0

\* the enemies of the session flagged dying, removed or not
dyingFlagged == {k \in Enemies : enemies[k].isDying}

\* the enemies _createEnemies placed
spawnedEnemies == {k \in Enemies : enemies[k].spawned}

\* C33: enemiesKilled is the number of enemies flagged dying, those already
\* removed included; invoking _killEnemy or _damageEnemy on an enemy again,
\* once it is flagged, counts nothing more; a step raises the count by at most
\* one; the count never exceeds the number of enemies spawned, which is at
\* most NUM_ENEMIES.
C33_KilledCount ==
    /\ [](/\ enemiesKilled = Cardinality(dyingFlagged)
          /\ dyingFlagged \subseteq spawnedEnemies
          /\ enemiesKilled <= Cardinality(spawnedEnemies)
          /\ Cardinality(spawnedEnemies) <= NUM_ENEMIES
          /\ \A k \in spawnedEnemies :
                LET once == killEnemy(Scene, k, time)
                    hit == damageEnemy(Scene, k, time)
                IN  /\ killEnemy(once, k, time).enemiesKilled = once.enemiesKilled
                    /\ damageEnemy(once, k, time).enemiesKilled = once.enemiesKilled
                    /\ killEnemy(hit, k, time).enemiesKilled
                          = hit.enemiesKilled + (IF hit.enemies[k].isDying THEN 0 ELSE 1)
                    /\ once.enemiesKilled
                          = enemiesKilled + (IF enemies[k].isDying THEN 0 ELSE 1))
    /\ [][enemiesKilled' <= enemiesKilled + 1]_vars

\* two of three enemies are counted: the first is removed and its heart lies
\* there, the second has just been flagged by the sword, the third is alive
C33_Witness ==
    /\ enemiesKilled = 2 /\ ev.op = "swordOverlap"
    /\ Cardinality(spawnedEnemies) = 3
    /\ \E k \in dyingFlagged : ~enemies[k].active /\ enemies[k].drops = 1
    /\ \E k \in dyingFlagged : enemies[k].active /\ enemies[k].dieAt # NoTimer

\* C34: a dying enemy is inert. From the moment isDying is set until the enemy
\* is removed, updateEnemy changes none of its fields (isChasing, velocity,
\* patrol target and timer, lastShotTime); _onPlayerHit called with it changes
\* nothing of the player or the session; the sword overlap called with it, also
\* with a hitbox that is still out, changes neither its hp nor the hitbox.
C34_DyingInert ==
    /\ [](ai.isDying <=> enemies[EndShooter].isDying)
    /\ [][ai.isDying => ai' = ai]_vars
    /\ [][\A k \in Enemies :
              (enemies[k].isDying /\ enemies'[k].active) =>
                  /\ enemies'[k].hp = enemies[k].hp
                  /\ enemies'[k].acts = enemies[k].acts
                  /\ enemies'[k].lastShotTime = enemies[k].lastShotTime
                  /\ enemies'[k].isDying]_vars
    /\ [][\A k \in Enemies, off \in Offsets :
              (enemies[k].isDying /\ PlayerTouchesEnemy(k, off)) =>
                  UNCHANGED <<playerHP, lastHitTime, playerVel, gameOver, enemies>>]_vars
    /\ [](\A k \in spawnedEnemies : enemies[k].active =>
              LET flagged == killEnemy(Scene, k, time)
                  swung == [flagged EXCEPT !.sword.active = TRUE]
              IN  /\ swordOverlap(swung, k, time) = swung
                  /\ \A off \in Offsets : onPlayerHit(flagged, k, off, time) = flagged)

\* the wizrobe chased the player, was killed by the sword in an earlier frame,
\* went through an update since, and now touches the player while its death
\* tween runs
C34_Witness ==
    /\ ev.op = "onPlayerHit" /\ ev.dying
    /\ ai.isDying /\ ai.isChasing /\ ai.move = "chase"
    /\ enemies[EndShooter].active /\ enemies[EndShooter].isDying
    /\ enemies[EndShooter].dieAt < time + DEATH_TWEEN_DUR
    /\ ~enemies[1].isDying /\ playerHP = MAX_HP

\* C35: every attack ends. While isAttacking is set the ATTACK_DUR timer is
\* pending, due 200 ms after the attack began; isAttacking is cleared by that
\* timer and by nothing else, whether the hitbox hit an enemy (and is gone) or
\* not; until then _handlePlayerMovement changes neither facing nor the
\* player's velocity; and isAttacking never stays true forever.
C35_AttackEnds ==
    /\ [](isAttacking <=> attackTimer # NoTimer)
    /\ [](isAttacking => /\ attackTimer = lastAttackTime + ATTACK_DUR
                         /\ time <= attackTimer \/ inFrame
                         /\ \A keys \in KeyDirs : handlePlayerMovement(Scene, keys) = Scene)
    /\ [][(isAttacking /\ ~isAttacking') =>
              /\ AttackTimer
              /\ time >= lastAttackTime + ATTACK_DUR
              /\ ~sword'.active]_vars
    /\ [][(isAttacking /\ isAttacking') => facing' = facing]_vars
    /\ [](isAttacking => <>(~isAttacking))

\* the timer has just ended an attack whose hitbox was destroyed by a hit
C35_Witness ==
    /\ ev.op = "timer" /\ ~isAttacking /\ attackTimer = NoTimer
    /\ sword.hits = 1 /\ sword.destroys = 1 /\ ~sword.active
    /\ time >= lastAttackTime + ATTACK_DUR

\* C36: the overlap callback of a projectile and the player destroys that
\* projectile, also when the hit falls inside the invincibility window and
\* takes no hit points, and touches no other projectile; a destroyed
\* projectile is never active again, so every loss of hit points caused by a
\* projectile is the one callback that destroys it: a projectile reduces
\* playerHP at most once.
C36_ProjectileSpent ==
    /\ [][\A p \in Projs, off \in Offsets :
              PlayerHitByProj(p, off) =>
                  /\ projs[p].st = "live" /\ projs'[p].st = "dead"
                  /\ projs'[p].destroys = 1
                  /\ playerHP' = IF Shielded THEN playerHP
                                 ELSE Max(0, playerHP - ENEMY_DMG)
                  /\ \A q \in Projs \ {p} : projs'[q] = projs[q]]_vars
    /\ [][\A p \in Projs : projs[p].st = "dead" => projs'[p].st # "live"]_vars
    /\ [][(playerHP' < playerHP /\ ev'.op = "onPlayerHitByProj") =>
              \E p \in Projs :
                  /\ projs[p].st = "live" /\ projs'[p].st = "dead"
                  /\ playerHP - playerHP' <= ENEMY_DMG]_vars
    /\ [](\A p \in Projs : projs[p].destroys <= 1)

\* a projectile has just hit a player shielded by an earlier hit: it is gone
\* and the hit points are those the earlier hit left
C36_Witness ==
    /\ ev.op = "onPlayerHitByProj" /\ ev.shielded
    /\ Shielded /\ playerHP = MAX_HP - ENEMY_DMG
    /\ \E p \in Projs : projs[p].st = "dead" /\ projs[p].destroys = 1
                          /\ time < projs[p].expireAt

\* C37: a tap in the attack zone made while an attack is ready gives exactly
\* one attack, however pointerdown and pointerup interleave with the frames:
\* when the pointer goes up the request of the tap has been taken by an update
\* (it is not still pending with the attack ready, to be dropped by pointerup),
\* and the update that starts the attack takes the request, so the same tap
\* starts no second attack.
C37_TapAttacksOnce ==
    /\ [][PointerUp =>
              ~(attackReady(Scene, time, FALSE) /\ ~gameOver /\ ~victory)]_vars
    /\ [][(touchAttack /\ ~isAttacking /\ isAttacking') => ~touchAttack']_vars

\* the patrol area: the map interior, two tiles from the edge
inPatrolArea(pt) ==
    /\ pt[1] >= 2 * TILE_SIZE /\ pt[1] <= (MAP_COLS - 2) * TILE_SIZE
    /\ pt[2] >= 2 * TILE_SIZE /\ pt[2] <= (MAP_ROWS - 2) * TILE_SIZE

\* v is the clamp of a point within 80 px of x
nearClamped(v, x, hi) ==
    \E dx \in (0 - 80)..80 : v = Clamp(x + dx, 2 * TILE_SIZE, hi)

\* C38: an enemy's patrol target always lies in [64, 1536] on both axes, as
\* created (the spawn position) and after every re-roll; in a patrolling frame
\* (updateEnemy on a non-dying enemy out of chase range) whose 16 ms tick
\* brings the patrol timer to 0 or below, the timer is re-rolled into
\* [2000, 4000] and the target becomes the clamp of a point within 80 px per
\* axis of the enemy; in every other frame the timer is only ticked down (when
\* patrolling) or left alone, and the target stays.
C38_PatrolTarget ==
    /\ [](inPatrolArea(ai.patrolTarget))
    /\ [](\A c \in 3..(MAP_COLS - 4), r \in {3, MAP_ROWS - 4} :
              inPatrolArea(newAIEnemy("goblin", <<spawnCentre(c), spawnCentre(r)>>, 0).patrolTarget))
    /\ [][frames' = frames + 1 =>
              IF ~ai.isDying /\ ~ai'.isChasing
              THEN IF ai.patrolTimer - PATROL_TICK <= 0
                   THEN /\ ai'.patrolTimer >= 2000 /\ ai'.patrolTimer <= 4000
                        /\ nearClamped(ai'.patrolTarget[1], ai.pos[1], (MAP_COLS - 2) * TILE_SIZE)
                        /\ nearClamped(ai'.patrolTarget[2], ai.pos[2], (MAP_ROWS - 2) * TILE_SIZE)
                   ELSE /\ ai'.patrolTimer = ai.patrolTimer - PATROL_TICK
                        /\ ai'.patrolTarget = ai.patrolTarget
              ELSE /\ ai'.patrolTimer = ai.patrolTimer
                   /\ ai'.patrolTarget = ai.patrolTarget]_vars

\* the timer reached 0 exactly in the second frame and was re-rolled; the new
\* target of the enemy at the far end of the spawn area is clamped to 1536
C38_Witness ==
    /\ frames = 2 /\ ~ai.isDying /\ ~ai.isChasing /\ ai.move = "patrol"
    /\ ai.patrolTimer = 2000
    /\ ai.pos = <<spawnCentre(MAP_COLS - 4), spawnCentre(MAP_ROWS - 4)>>
    /\ ai.patrolTarget = <<(MAP_COLS - 2) * TILE_SIZE, ai.pos[2] - 80>>

====
